---- MODULE Spec2Model ----
(***************************************************************************)
(* Studio OM V2: the weather-adjusted performance analysis (src/src/       *)
(* analysis.py) and the Streamlit session that drives it                   *)
(* (src/streamlit_app.py, src/baseline_validator_page.py,                  *)
(* src/app_pages.py).                                                      *)
(*                                                                         *)
(* Numbers.  The program computes in float64.  The model computes in exact *)
(* rationals extended with the float specials the code manipulates: a      *)
(* value is [k, n, d] with k = "num" (the rational n/d in lowest terms,    *)
(* d > 0), k = "inf" (n = 1 or -1 is the sign) or k = "nan".  pandas uses  *)
(* NaN for a missing cell, so "nan" is also the missing value.             *)
(***************************************************************************)
EXTENDS Integers, Sequences, FiniteSets, TLC

VARIABLES
    logged_in,            \* st.session_state['logged_in']
    baseline_confirmed,   \* st.session_state['baseline_confirmed']
    validation_results,   \* st.session_state['validation_results'] or None
    system_info,          \* st.session_state['system_info'] or None
    pvsyst_df,            \* st.session_state['pvsyst_df'] or None
    actual_df,            \* st.session_state['actual_df'] or None
    analysis_df,          \* st.session_state['analysis_df'] or None
    insights,             \* st.session_state['insights'] or None
    conclusion_text_list, \* st.session_state['conclusion_text_list'] or None
    forecast_df,          \* st.session_state['forecast_df'] or None
    forecast_monthly,     \* the monthly forecast_df of calculate_long_term_forecast (l.141-148)
    full_years_df,        \* the _get_full_years_df(analysis_df) of the last run
    anomaly_flags,        \* the is_anomaly column of the session's analysis table, or None
    short_term_forecast_result, \* st.session_state['short_term_forecast_result']
    guarantee_df,         \* st.session_state['guarantee_df'] or None
    loss_breakdown_figs,  \* the data of the two loss-breakdown figures, or None
    phase2_cache,         \* st.cache_data store of perform_phase2_analysis (process-wide)
    conclusion_cache,     \* st.cache_data store of generate_conclusion_text_phase2
    db,                   \* the SQLite file: [projects, monthly]
    last_call,            \* the arguments and library results of the last run
    fn_call               \* the last direct call of a function: arguments and outcome

vars == <<logged_in, baseline_confirmed, validation_results, system_info, pvsyst_df,
          actual_df, analysis_df, insights, conclusion_text_list, forecast_df,
          forecast_monthly, full_years_df, anomaly_flags, short_term_forecast_result,
          guarantee_df, loss_breakdown_figs, phase2_cache, conclusion_cache, db,
          last_call, fn_call>>

\* A value that may be None is a sequence of length 0 (None) or 1 (the value), so
\* that None compares with every value.  An absent session key is None as well.
None == <<>>

Some(v) == <<v>>

Get(o) == o[1]

(***************************************************************************)
(* float64 values and the arithmetic of Python / numpy / pandas on them.   *)
(***************************************************************************)
RECURSIVE GCD(_, _)
GCD(a, b) == IF b = 0 THEN a ELSE GCD(b, a % b)

Abs(i) == IF i < 0 THEN -i ELSE i

Sgn(i) == IF i < 0 THEN -1 ELSE IF i > 0 THEN 1 ELSE 0

NaN == [k |-> "nan", n |-> 0, d |-> 1]

Inf(s) == [k |-> "inf", n |-> s, d |-> 1]

\* The float n/d, d # 0.
Q(n, d) ==
    LET s == IF d < 0 THEN -1 ELSE 1
        g == GCD(Abs(n), Abs(d))
    IN  [k |-> "num", n |-> (s * n) \div g, d |-> (s * d) \div g]

F(i) == Q(i, 1)

IsNaN(a) == a.k = "nan"

IsInf(a) == a.k = "inf"

IsFinite(a) == a.k = "num"

Neg(a) == IF a.k = "nan" THEN NaN ELSE [a EXCEPT !.n = -a.n]

Add(a, b) ==
    IF a.k = "nan" \/ b.k = "nan" THEN NaN
    ELSE IF a.k = "inf" /\ b.k = "inf" THEN (IF a.n = b.n THEN a ELSE NaN)
    ELSE IF a.k = "inf" THEN a
    ELSE IF b.k = "inf" THEN b
    ELSE LET g == GCD(a.d, b.d)
         IN  Q(a.n * (b.d \div g) + b.n * (a.d \div g), (a.d \div g) * b.d)

Sub(a, b) == Add(a, Neg(b))

Mul(a, b) ==
    IF a.k = "nan" \/ b.k = "nan" THEN NaN
    ELSE IF a.k = "inf" \/ b.k = "inf"
         THEN (IF Sgn(a.n) * Sgn(b.n) = 0 THEN NaN ELSE Inf(Sgn(a.n) * Sgn(b.n)))
    ELSE LET g1 == GCD(Abs(a.n), b.d)
             g2 == GCD(Abs(b.n), a.d)
         IN  Q((a.n \div g1) * (b.n \div g2), (a.d \div g2) * (b.d \div g1))

\* numpy float division: x/0 is +-inf, 0/0 is nan, nothing raises.
Div(a, b) ==
    IF a.k = "nan" \/ b.k = "nan" THEN NaN
    ELSE IF a.k = "inf" /\ b.k = "inf" THEN NaN
    ELSE IF a.k = "inf" THEN Inf(a.n * (IF b.n < 0 THEN -1 ELSE 1))
    ELSE IF b.k = "inf" THEN F(0)
    ELSE IF b.n = 0 THEN (IF a.n = 0 THEN NaN ELSE Inf(Sgn(a.n)))
    ELSE Mul(a, Q(b.d, b.n))

\* a < b in IEEE 754: every comparison with NaN is false.
Lt(a, b) ==
    IF a.k = "nan" \/ b.k = "nan" THEN FALSE
    ELSE IF a.k = "inf" THEN a.n < 0 /\ ~(b.k = "inf" /\ b.n < 0)
    ELSE IF b.k = "inf" THEN b.n > 0
    ELSE LET g == GCD(a.d, b.d)
         IN  a.n * (b.d \div g) < b.n * (a.d \div g)

Gt(a, b) == Lt(b, a)

Eq(a, b) == a.k # "nan" /\ b.k # "nan" /\ a = b

Le(a, b) == Lt(a, b) \/ Eq(a, b)

Ge(a, b) == Le(b, a)

\* Python's builtin max(x, c): c replaces x only when c > x, so max(nan, c) is nan.
PyMax(x, c) == IF Gt(c, x) THEN c ELSE x

\* Series.replace([np.inf, -np.inf], np.nan), one cell.
ReplaceInf(a) == IF a.k = "inf" THEN NaN ELSE a

\* Series.fillna(0), one cell.
FillNa0(a) == IF a.k = "nan" THEN F(0) ELSE a

\* Series.clip(lower, upper), one cell (NaN stays NaN).
Clip(a, lo, hi) == IF Lt(a, lo) THEN lo ELSE IF Gt(a, hi) THEN hi ELSE a

RECURSIVE SumSeq(_)
\* Series.sum(): skipna=True, the sum of no value is 0.  (Halving keeps the
\* recursion shallow; exact addition is associative.)
SumSeq(s) ==
    IF Len(s) = 0 THEN F(0)
    ELSE IF Len(s) = 1 THEN (IF IsNaN(s[1]) THEN F(0) ELSE s[1])
    ELSE Add(SumSeq(SubSeq(s, 1, Len(s) \div 2)),
             SumSeq(SubSeq(s, (Len(s) \div 2) + 1, Len(s))))

CountNotNa(s) == Cardinality({i \in 1..Len(s) : ~IsNaN(s[i])})

\* Series.mean(): skipna=True, the mean of no value is NaN.
MeanSeq(s) == IF CountNotNa(s) = 0 THEN NaN ELSE Div(SumSeq(s), F(CountNotNa(s)))

\* Series ** exponent on one cell, with an integer exponent (numpy: 0.0 ** -1 is inf).
RECURSIVE Pow(_, _)
Pow(b, e) ==
    IF e = 0 THEN F(1)
    ELSE IF e > 0 THEN Mul(b, Pow(b, e - 1))
    ELSE Div(F(1), Pow(b, -e))

(***************************************************************************)
(* Tables.  A DataFrame is the sequence of its rows; a row is a record.    *)
(* Date is the month index Year * 12 + Month - 1 of the row's timestamp    *)
(* (load_actual_data parses '%Y-%m', so every Date is the first of a       *)
(* month).  Column names with '%' are spelled _pct.                        *)
(***************************************************************************)
RECURSIVE Flatten(_)
\* The concatenation of a sequence of sequences.
Flatten(ss) ==
    IF Len(ss) = 0 THEN <<>>
    ELSE IF Len(ss) = 1 THEN ss[1]
    ELSE Flatten(SubSeq(ss, 1, Len(ss) \div 2))
         \o Flatten(SubSeq(ss, (Len(ss) \div 2) + 1, Len(ss)))

\* (<<>> \o f is the function f as an explicit sequence.)
Col(df, c) == <<>> \o [i \in 1..Len(df) |-> df[i][c]]

RowSet(df) == {df[i] : i \in 1..Len(df)}

\* One row of load_actual_data's result: Year and Month are derived from Date.
ActualRow(y, m, yield, pr, ghi, temp) ==
    [Date |-> y * 12 + m - 1, Year |-> y, Month |-> m,
     actual_yield_kwh |-> yield, actual_pr_percent |-> pr,
     actual_ghi_kwh_m2 |-> ghi, ambient_temp_c |-> temp]

\* One row of load_pvsyst_baseline's result.
BaselineRow(m, yield, pr, ghi) ==
    [Month |-> m, pvsyst_yield_kwh |-> yield, pvsyst_pr_percent |-> pr,
     pvsyst_ghi_kwh_m2 |-> ghi]

\* pd.merge(_actual_df, _pvsyst_df, on='Month', how='left'), the rows of one left row:
\* one joined row per matching baseline row, and a row of missing baseline cells
\* when the month has none.
MergeRow(a, pv) ==
    LET hits == SelectSeq(pv, LAMBDA b : b.Month = a.Month)
        join(b) == [Date |-> a.Date, Year |-> a.Year, Month |-> a.Month,
                    actual_yield_kwh |-> a.actual_yield_kwh,
                    actual_pr_percent |-> a.actual_pr_percent,
                    actual_ghi_kwh_m2 |-> a.actual_ghi_kwh_m2,
                    ambient_temp_c |-> a.ambient_temp_c,
                    pvsyst_yield_kwh |-> b.pvsyst_yield_kwh,
                    pvsyst_pr_percent |-> b.pvsyst_pr_percent,
                    pvsyst_ghi_kwh_m2 |-> b.pvsyst_ghi_kwh_m2]
    IN  IF hits = <<>> THEN <<join(BaselineRow(a.Month, NaN, NaN, NaN))>>
        ELSE [i \in 1..Len(hits) |-> join(hits[i])]

MergeLeft(act, pv) == Flatten([i \in 1..Len(act) |-> MergeRow(act[i], pv)])

CHECK_SENSOR == "Check Sensor"

OK == "OK"

\* The alert with the two bounds of the band flagged as well.
IrrAlertInclusive(irr, thr) ==
    IF Ge(irr, Add(F(100), thr)) \/ Le(irr, Sub(F(100), thr)) THEN CHECK_SENSOR ELSE OK

\* irr_alert (lines 35-39): np.where(index > 100 + threshold | index < 100 - threshold).
IrrAlert(irr, thr) ==
    IF Gt(irr, Add(F(100), thr)) \/ Lt(irr, Sub(F(100), thr)) THEN CHECK_SENSOR ELSE OK

\* expected_yield_kwh without the floor of line 44.
ExpectedYieldNoFloor(ideal, temp) == Add(ideal, temp)

\* expected_yield_kwh (lines 43-44): the sum, then .apply(lambda x: max(x, 0.01)).
ExpectedYield(ideal, temp) == PyMax(Add(ideal, temp), Q(1, 100))

\* Lines 29-49 of perform_phase2_analysis on one merged row j.
EnrichRow(j, info) ==
    LET ratio    == ReplaceInf(Div(j.actual_ghi_kwh_m2, j.pvsyst_ghi_kwh_m2))
        irr      == FillNa0(Mul(ratio, F(100)))
        thr      == info.irr_alert_threshold
        ideal    == Mul(j.pvsyst_yield_kwh, FillNa0(ratio))
        temp     == Mul(Mul(ideal, Div(info.temp_coeff, F(100))),
                        Sub(j.ambient_temp_c, F(25)))
        expected == ExpectedYield(ideal, temp)
        variance == Sub(j.actual_yield_kwh, expected)
    IN  [Date |-> j.Date, Year |-> j.Year, Month |-> j.Month,
         op_year |-> IF j.Year - info.commissioning_year > 0
                     THEN j.Year - info.commissioning_year ELSE 0,
         actual_yield_kwh |-> j.actual_yield_kwh,
         expected_yield_kwh |-> expected,
         ideal_yield_kwh |-> ideal,
         temp_loss_kwh |-> temp,
         other_losses_kwh |-> Sub(expected, j.actual_yield_kwh),
         yield_variance_kwh |-> variance,
         yield_variance_pct |-> FillNa0(Mul(ReplaceInf(Div(variance, expected)), F(100))),
         actual_ghi_kwh_m2 |-> j.actual_ghi_kwh_m2,
         pvsyst_ghi_kwh_m2 |-> j.pvsyst_ghi_kwh_m2,
         irr_index_pct |-> irr,
         irr_alert |-> IrrAlert(irr, thr),
         pi_pct |-> Mul(Div(j.actual_yield_kwh, expected), F(100)),
         actual_pr_percent |-> j.actual_pr_percent,
         pvsyst_pr_percent |-> j.pvsyst_pr_percent,
         ambient_temp_c |-> j.ambient_temp_c]

\* DataFrame.sort_values(by='Date') uses an unstable sort: rows of equal Date may
\* come out in either order.  tie = "stable" keeps their input order, tie =
\* "reversed" reverses it; both are results the library may give.
InsertRow(sorted, x, tie) ==
    LET before == SelectSeq(sorted,
                     LAMBDA r : r.Date < x.Date \/ (tie = "stable" /\ r.Date = x.Date))
    IN  before \o <<x>> \o SubSeq(sorted, Len(before) + 1, Len(sorted))

RECURSIVE SortByDateFrom(_, _, _)
SortByDateFrom(done, rest, tie) ==
    IF rest = <<>> THEN done
    ELSE SortByDateFrom(InsertRow(done, Head(rest), tie), Tail(rest), tie)

SortByDate(df, tie) == SortByDateFrom(<<>>, df, tie)

Ties == {"stable", "reversed"}

\* The mean of the monthly pi_% values, written where the yield-weighted average belongs.
AveragePIMean(df) == MeanSeq(Col(df, "pi_pct"))

\* insights['Average PI (%)'] (line 62).
AveragePI(df) ==
    IF Gt(SumSeq(Col(df, "expected_yield_kwh")), F(0))
    THEN Mul(Div(SumSeq(Col(df, "actual_yield_kwh")),
                 SumSeq(Col(df, "expected_yield_kwh"))), F(100))
    ELSE F(0)

\* The percentage computed whatever the total expected yield is.
OverallYieldVariancePctUnguarded(total_actual, total_expected) ==
    Mul(Div(Sub(total_actual, total_expected), total_expected), F(100))

\* insights['Overall Yield Variance (%)'] (line 61).
OverallYieldVariancePct(total_actual, total_expected) ==
    IF Gt(total_expected, F(0))
    THEN Mul(Div(Sub(total_actual, total_expected), total_expected), F(100))
    ELSE F(0)

\* The insights dictionary (lines 51-64); keys are the dictionary's keys with the
\* unit in the name.
Insights(df) ==
    LET total_actual_yield_mwh   == Div(SumSeq(Col(df, "actual_yield_kwh")), F(1000))
        total_expected_yield_mwh == Div(SumSeq(Col(df, "expected_yield_kwh")), F(1000))
    IN  [Total_Actual_Yield_MWh |-> total_actual_yield_mwh,
         Total_Expected_Yield_MWh |-> total_expected_yield_mwh,
         Total_Ideal_Yield_MWh |-> Div(SumSeq(Col(df, "ideal_yield_kwh")), F(1000)),
         Total_Temperature_Loss_MWh |-> Div(SumSeq(Col(df, "temp_loss_kwh")), F(1000)),
         Total_Other_Losses_MWh |-> Div(SumSeq(Col(df, "other_losses_kwh")), F(1000)),
         Overall_Yield_Variance_MWh |-> Sub(total_actual_yield_mwh, total_expected_yield_mwh),
         Overall_Yield_Variance_pct |->
             OverallYieldVariancePct(total_actual_yield_mwh, total_expected_yield_mwh),
         Average_PI_pct |-> AveragePI(df),
         Average_PR_pct |-> MeanSeq(Col(df, "actual_pr_percent")),
         Sensor_Alerts_Count |-> Len(SelectSeq(df, LAMBDA r : r.irr_alert # OK))]

\* The body of perform_phase2_analysis (lines 23-76): what one uncached call computes.
Phase2(act, pv, info, tie) ==
    LET merged   == MergeLeft(act, pv)
        enriched == <<>> \o [i \in 1..Len(merged) |-> EnrichRow(merged[i], info)]
    IN  [df |-> SortByDate(enriched, tie), insights |-> Insights(enriched)]

(***************************************************************************)
(* Grouping and the full-year filter.                                      *)
(***************************************************************************)
Min(S) == CHOOSE x \in S : \A y \in S : x <= y

Max(S) == CHOOSE x \in S : \A y \in S : x >= y

\* The elements of a finite set of integers in ascending order.
SortedSeq(S) ==
    <<>> \o [i \in 1..Cardinality(S) |->
               CHOOSE x \in S : Cardinality({y \in S : y < x}) = i - 1]

Years(df) == {df[i].Year : i \in 1..Len(df)}

\* df.groupby('Year')['Month'].nunique(), the entry of year y.
month_counts(df, y) == Cardinality({df[i].Month : i \in {j \in 1..Len(df) : df[j].Year = y}})

\* The filter with rows counted where distinct months belong.
GetFullYearsByRowCount(df) ==
    LET full_years == {y \in Years(df) : Len(SelectSeq(df, LAMBDA q : q.Year = y)) >= 12}
    IN  SelectSeq(df, LAMBDA r : r.Year \in full_years)

\* _get_full_years_df (lines 10-16); the empty DataFrame is the empty sequence.
GetFullYearsDf(df) ==
    IF df = <<>> THEN <<>>
    ELSE LET full_years == {y \in Years(df) : month_counts(df, y) = 12}
         IN  SelectSeq(df, LAMBDA r : r.Year \in full_years)

\* df.groupby('Year')[c].sum(), the entry of year y.
YearSum(df, c, y) == SumSeq(Col(SelectSeq(df, LAMBDA r : r.Year = y), c))

(***************************************************************************)
(* The loss breakdown and the yearly guarantee table.                      *)
(***************************************************************************)
NO_ERROR == "no error"

INVALID_PERIOD == "ValueError: Invalid period. Must be 'overall' or 'latest_month'."

INSIGHTS_REQUIRED == "ValueError: Insights dictionary must be provided for 'overall' period."

\* The dictionary with the variance (actual - expected) where the loss belongs.
BreakdownVarianceAsLoss(ideal, temp_loss, other_loss, actual, label, date) ==
    [ideal |-> ideal, temp_loss |-> temp_loss, other_loss |-> Neg(other_loss),
     actual |-> actual, period_str |-> [label |-> label, date |-> date]]

\* The dictionary get_loss_breakdown_data returns; period_str is the label, with the
\* month index the label names (0 when it names none).
Breakdown(ideal, temp_loss, other_loss, actual, label, date) ==
    [ideal |-> ideal, temp_loss |-> temp_loss, other_loss |-> other_loss,
     actual |-> actual, period_str |-> [label |-> label, date |-> date]]

\* Line 81: the dictionary of an empty table.
NoDataBreakdown == Breakdown(F(0), F(0), F(0), F(0), "no data", 0)

\* Lines 85-91: the totals of the insights dictionary.
OverallBreakdown(ins) ==
    Breakdown(ins.Total_Ideal_Yield_MWh, ins.Total_Temperature_Loss_MWh,
              ins.Total_Other_Losses_MWh, ins.Total_Actual_Yield_MWh,
              "the entire analysis period", 0)

\* The first row where the last belongs.
FirstRow(df) == df[1]

\* analysis_df.iloc[-1] (line 93).
LatestRow(df) == df[Len(df)]

\* Lines 93-100: the latest row's fields in MWh.
LatestMonthBreakdown(df) ==
    LET latest_row == LatestRow(df)
    IN  Breakdown(Div(latest_row.ideal_yield_kwh, F(1000)),
                  Div(latest_row.temp_loss_kwh, F(1000)),
                  Div(latest_row.other_losses_kwh, F(1000)),
                  Div(latest_row.actual_yield_kwh, F(1000)),
                  "month", latest_row.Date)

\* The function with an unrecognised period read as 'latest_month'.
LossBreakdownGuessing(df, ins, period) ==
    IF df = <<>> THEN [raised |-> NO_ERROR, result |-> Some(NoDataBreakdown)]
    ELSE IF period = "overall"
    THEN IF ins = None THEN [raised |-> INSIGHTS_REQUIRED, result |-> None]
         ELSE [raised |-> NO_ERROR, result |-> Some(OverallBreakdown(Get(ins)))]
    ELSE [raised |-> NO_ERROR, result |-> Some(LatestMonthBreakdown(df))]

\* get_loss_breakdown_data (lines 79-102); ins is None or Some(insights).  The
\* result is None when the call raised.
get_loss_breakdown_data(df, ins, period) ==
    IF df = <<>> THEN [raised |-> NO_ERROR, result |-> Some(NoDataBreakdown)]
    ELSE IF period = "overall"
    THEN IF ins = None THEN [raised |-> INSIGHTS_REQUIRED, result |-> None]
         ELSE [raised |-> NO_ERROR, result |-> Some(OverallBreakdown(Get(ins)))]
    ELSE IF period = "latest_month"
    THEN [raised |-> NO_ERROR, result |-> Some(LatestMonthBreakdown(df))]
    ELSE [raised |-> INVALID_PERIOD, result |-> None]

\* The years of the table without the years between them.
GuaranteeYearsObserved(df, info) == SortedSeq(Years(df))

\* all_years_df (lines 120-122): every year from the first to the last year of the
\* table; the commissioning year alone when the table is empty.
GuaranteeYears(df, info) ==
    LET min_year == IF df = <<>> THEN info.commissioning_year ELSE Min(Years(df))
        max_year == IF df = <<>> THEN info.commissioning_year ELSE Max(Years(df))
    IN  <<>> \o [i \in 1..(max_year - min_year + 1) |-> min_year + i - 1]

\* The guarantee decayed by the degradation rate from the commissioning year.
DegradedGuaranteeOfYear(info, y) ==
    Mul(info.energy_guarantee,
        Pow(Sub(F(1), Div(info.degradation_rate, F(100))), y - info.commissioning_year))

\* result_df['Energy Guarantee (MWh)'] = annual_guarantee_mwh (line 125), the cell
\* of year y.
GuaranteeOfYear(info, y) == info.energy_guarantee

\* create_yearly_yield_guarantee_data (lines 113-126): a year without rows has
\* missing yields (left merges of lines 123-124).
create_yearly_yield_guarantee_data(df, info) ==
    LET all_years == GuaranteeYears(df, info)
        cell(c, y) == IF y \in Years(df) THEN Div(YearSum(df, c, y), F(1000)) ELSE NaN
    IN  <<>> \o [i \in 1..Len(all_years) |->
                   [Year |-> all_years[i],
                    Actual_Yearly_Yield_MWh |-> cell("actual_yield_kwh", all_years[i]),
                    Energy_Guarantee_MWh |-> GuaranteeOfYear(info, all_years[i]),
                    Expected_Yearly_Yield_MWh |-> cell("expected_yield_kwh", all_years[i])]]

(***************************************************************************)
(* The two fitted models.  Prophet and IsolationForest are libraries: what *)
(* they return is not decided by this repository, so each result is drawn  *)
(* from a family of possible outputs (the oracle o of a run).              *)
(***************************************************************************)
Trends == {"flat", "up", "down", "edge"}

\* Prophet's yhat for month index date when the history ends at last: a trend that
\* stays inside [50, 110], one that runs away above 110, one that runs away below
\* 50, and one that sits on the two bounds.
Yhat(trend, date, last) ==
    CASE trend = "flat" -> Q(191, 2)
      [] trend = "up"   -> F(104 + 2 * (date - last))
      [] trend = "down" -> F(56 - 3 * (date - last))
      [] trend = "edge" -> IF date % 2 = 0 THEN F(110) ELSE F(50)

\* Prophet.fit raises ValueError when the history has fewer than 2 non-NaN y.
ProphetFits(df) == CountNotNa(Col(df, "pi_pct")) >= 2

Anoms == {"none", "first", "all"}

\* IsolationForest.predict on the rows of df: -1 marks an outlier, 1 an inlier.
Predict(anom, df) ==
    [i \in 1..Len(df) |->
        IF anom = "all" \/ (anom = "first" /\ i = 1) THEN -1 ELSE 1]

\* detect_anomalies_with_ml (lines 179-189): the is_anomaly column.
detect_anomalies_with_ml(df, anom) ==
    IF df = <<>> \/ Len(df) < 3 THEN [i \in 1..Len(df) |-> 1]
    ELSE Predict(anom, df)

\* calculate_short_term_forecast (lines 166-177): None, or the forecast of the month
\* after the last of the (at most 24) most recent rows; raised when Prophet.fit
\* refuses the history; fitted when a model was fitted.
calculate_short_term_forecast(df, trend) ==
    IF df = <<>> \/ Len(df) < 6 THEN [raised |-> FALSE, fitted |-> FALSE, result |-> None]
    ELSE LET recent_df == SubSeq(df, IF Len(df) > 24 THEN Len(df) - 23 ELSE 1, Len(df))
             last      == Max({recent_df[i].Date : i \in 1..Len(recent_df)})
             yhat      == Yhat(trend, last + 1, last)
         IN  IF ~ProphetFits(recent_df)
             THEN [raised |-> TRUE, fitted |-> FALSE, result |-> None]
             ELSE [raised |-> FALSE, fitted |-> TRUE,
                   result |-> Some([date |-> last + 1, pi |-> yhat,
                                    pi_lower |-> Sub(yhat, F(5)),
                                    pi_upper |-> Add(yhat, F(5))])]

\* The clip of line 143 left out.
ClipPINone(yhat) == yhat

\* forecast_df['Forecasted PI (%)'].clip(lower=50, upper=110) (line 143), one cell.
ClipPI(yhat) == Clip(yhat, F(50), F(110))

\* The future months alone, as with include_history=False.
make_future_only(history, periods) ==
    [i \in 1..periods |-> Max({history[j].Date : j \in 1..Len(history)}) + i]

\* make_future_dataframe(periods, freq='MS'): the distinct history dates in order,
\* then the next `periods` months after the last of them.
make_future_dataframe(history, periods) ==
    LET dates == {history[i].Date : i \in 1..Len(history)}
    IN  SortedSeq(dates) \o [i \in 1..periods |-> Max(dates) + i]

\* The monthly forecast_df (lines 139-148) of a history that passed the guard of
\* line 131: one row per predicted month and matching baseline row.
ForecastMonthly(history, pv, info, trend) ==
    LET future == make_future_dataframe(history, info.forecast_period * 12)
        last   == Max({history[i].Date : i \in 1..Len(history)})
        row(date, b) ==
            LET fpi == ClipPI(Yhat(trend, date, last))
            IN  [Date |-> date, Forecasted_PI_pct |-> fpi,
                 Year |-> date \div 12, Month |-> (date % 12) + 1,
                 pvsyst_yield_kwh |-> b.pvsyst_yield_kwh,
                 Forecasted_Monthly_Yield_kWh |->
                     Mul(b.pvsyst_yield_kwh, Div(fpi, F(100)))]
        rows(date) ==
            LET hits == SelectSeq(pv, LAMBDA b : b.Month = (date % 12) + 1)
            IN  IF hits = <<>> THEN <<row(date, BaselineRow((date % 12) + 1, NaN, NaN, NaN))>>
                ELSE [i \in 1..Len(hits) |-> row(date, hits[i])]
    IN  Flatten([i \in 1..Len(future) |-> rows(future[i])])

\* The override taking every year that has any actual row, full or not.
ForecastedYieldAnyYear(y, monthly, fy, df) ==
    IF y \in Years(df)
    THEN Div(YearSum(df, "actual_yield_kwh", y), F(1000))
    ELSE Div(YearSum(monthly, "Forecasted_Monthly_Yield_kWh", y), F(1000))

\* 'Forecasted Yield (MWh)' of year y (lines 149-158): the year's actual yield when the
\* year is in yearly_actuals, which is built from full_years_df, else the forecast sum.
ForecastedYield(y, monthly, fy, df) ==
    IF y \in Years(fy)
    THEN Div(YearSum(fy, "actual_yield_kwh", y), F(1000))
    ELSE Div(YearSum(monthly, "Forecasted_Monthly_Yield_kWh", y), F(1000))

\* The tag with the last full year itself counted as forecast.
TypeOfYearStrict(y, last_full_year) ==
    IF y < last_full_year THEN "Historical" ELSE "Forecast"

\* final_df['Type'] (line 163), one cell.
TypeOfYear(y, last_full_year) ==
    IF y <= last_full_year THEN "Historical" ELSE "Forecast"

\* The yearly table of calculate_long_term_forecast (lines 149-164) from its monthly
\* forecast_df.
ForecastYearly(monthly, fy, df, info) ==
    LET years == SortedSeq(Years(monthly))
        last_full_year == Max(Years(fy))
    IN  [i \in 1..Len(years) |->
            [Year |-> years[i],
             Forecasted_Yield_MWh |-> ForecastedYield(years[i], monthly, fy, df),
             Degraded_Guarantee_MWh |->
                 Mul(info.energy_guarantee,
                     Pow(Sub(F(1), Div(info.degradation_rate, F(100))),
                         years[i] - info.commissioning_year)),
             Type |-> TypeOfYear(years[i], last_full_year)]]

\* The guard of calculate_long_term_forecast (line 131) on full_years_df fy: TRUE
\* when the function returns the empty DataFrame without fitting.
LongTermUnavailable(fy, pv) == fy = <<>> \/ pv = <<>> \/ Len(fy) < 12

\* calculate_long_term_forecast (lines 128-164): the empty table when the guard
\* holds, the yearly table otherwise; raised when Prophet.fit refuses the history;
\* fitted when a model was fitted.
calculate_long_term_forecast(df, pv, info, trend) ==
    LET fy == GetFullYearsDf(df)
    IN  IF LongTermUnavailable(fy, pv)
        THEN [raised |-> FALSE, fitted |-> FALSE, result |-> <<>>]
        ELSE IF ~ProphetFits(fy) THEN [raised |-> TRUE, fitted |-> FALSE, result |-> <<>>]
        ELSE [raised |-> FALSE, fitted |-> TRUE,
              result |-> ForecastYearly(ForecastMonthly(fy, pv, info, trend), fy, df, info)]

(***************************************************************************)
(* The narrative.  A report line is (style, text); the model keeps the     *)
(* style, the sentence (by its opening words) and the month index the      *)
(* sentence names (0 when it names none).                                  *)
(***************************************************************************)
Line(style, text, arg) == [style |-> style, text |-> text, arg |-> arg]

SENSOR_REC == "Inspect Irradiance Sensor"

ANOMALY_REC == "Investigate Anomaly in"

OPTIMAL == "The system is performing optimally"

\* The position of strftime('%B') of month m among the month names in string order.
MonthNameRank(m) ==
    CASE m = 4 -> 1 [] m = 8 -> 2 [] m = 12 -> 3 [] m = 2 -> 4 [] m = 1 -> 5
      [] m = 7 -> 6 [] m = 6 -> 7 [] m = 3 -> 8 [] m = 5 -> 9 [] m = 11 -> 10
      [] m = 10 -> 11 [] m = 9 -> 12

\* sorted(list(set(recommendations))) of the anomaly recommendations of the month
\* indices in dates: string order is month name, then year.
SortedAnomalyRecs(dates) ==
    LET key(d) == MonthNameRank((d % 12) + 1) * 10000 + (d \div 12)
        keys   == SortedSeq({key(d) : d \in dates})
    IN  [i \in 1..Len(keys) |->
            Line("bullet", ANOMALY_REC, CHOOSE d \in dates : key(d) = keys[i])]

\* Lines 231-239: the recommendations section.  The list is non-empty exactly when
\* some month is anomalous; 'Inspect...' sorts before every 'Investigate...'.
RecommendationLines(anomalous_dates, sensor_alerts) ==
    IF anomalous_dates # {}
    THEN <<Line("h3", "Actionable Recommendations", 0)>>
         \o (IF sensor_alerts > 0 THEN <<Line("bullet", SENSOR_REC, 0)>> ELSE <<>>)
         \o SortedAnomalyRecs(anomalous_dates)
    ELSE <<Line("h3", "Actionable Recommendations", 0), Line("body", OPTIMAL, 0)>>

\* generate_conclusion_text_phase2 (lines 192-240).  It raises when the short-term
\* fit raises, and on an empty table, whose _get_full_years_df has no 'Year' column
\* (line 217).  flags is the is_anomaly column of line 195.
generate_conclusion_text_phase2(ins, df, info, flags, stf) ==
    LET anomalous == SelectSeq([i \in 1..Len(df) |-> [Date |-> df[i].Date, f |-> flags[i]]],
                               LAMBDA r : r.f = -1)
        avg_pi    == ins.Average_PI_pct
        summary   == IF Ge(avg_pi, F(100)) THEN "excellent"
                     ELSE IF Ge(avg_pi, F(97)) THEN "good"
                     ELSE "underperformance"
        fy        == GetFullYearsDf(df)
    IN  IF stf.raised \/ df = <<>> THEN [raised |-> TRUE, lines |-> <<>>]
        ELSE [raised |-> FALSE,
              lines |->
                 <<Line("h3", "AI Performance Assistant Insights", 0),
                   Line("body", "I've analyzed", 0),
                   Line("h4", "Key Performance Insights", 0),
                   Line("body", summary, 0)>>
                 \o (IF stf.result # None
                     THEN <<Line("h4", "Next Month Forecast", 0),
                            Line("body", "For", Get(stf.result).date)>>
                     ELSE <<>>)
                 \o (IF Cardinality(Years(fy)) > 1
                     THEN <<Line("h4", "Degradation Trend", 0),
                            Line("body", "Degradation trend analysis", 0)>>
                     ELSE <<>>)
                 \o <<Line("h4", "Machine Learning Anomaly Report", 0)>>
                 \o (IF anomalous # <<>>
                     THEN <<Line("body", "Our ML model has identified", 0)>>
                          \o [i \in 1..Len(anomalous) |->
                                 Line("bullet", "Month:", anomalous[i].Date)]
                     ELSE <<Line("body", "No significant performance anomalies", 0)>>)
                 \o RecommendationLines({anomalous[i].Date : i \in 1..Len(anomalous)},
                                        ins.Sensor_Alerts_Count)]

(***************************************************************************)
(* st.cache_data around perform_phase2_analysis.  The store belongs to the *)
(* server process: it outlives a session and is shared by all of them.     *)
(***************************************************************************)
\* The cache key of a call (line 19): st.cache_data hashes the function and the
\* arguments whose parameter name does not start with an underscore.  All three
\* parameters are named _actual_df, _pvsyst_df, _system_info, so none is hashed.
CacheKey(act, pv, info) == "perform_phase2_analysis"

\* The cached perform_phase2_analysis: the stored value of the key when there is
\* one, else the value computed now.
CachedPhase2(cache, act, pv, info, tie) ==
    LET key == CacheKey(act, pv, info)
    IN  IF \E e \in cache : e.key = key
        THEN (CHOOSE e \in cache : e.key = key).value
        ELSE Phase2(act, pv, info, tie)

\* The store after a call that returned value: a miss stores it under the key.
CacheAfter(cache, act, pv, info, value) ==
    LET key == CacheKey(act, pv, info)
    IN  IF \E e \in cache : e.key = key THEN cache
        ELSE cache \cup {[key |-> key, value |-> value]}

\* The cache key of generate_conclusion_text_phase2(insights, analysis_df,
\* system_info) (lines 191-192): every argument is hashed.
ConclusionKey(ins, df, info) == <<ins, df, info>>

\* The stored narrative of the key, or None on a miss.
CachedConclusion(cache, ins, df, info) ==
    LET key == ConclusionKey(ins, df, info)
    IN  IF \E e \in cache : e.key = key
        THEN Some((CHOOSE e \in cache : e.key = key).value)
        ELSE None

\* The store after a miss whose call returned lines (a call that raises stores
\* nothing).
ConclusionCacheAfter(cache, ins, df, info, lines) ==
    cache \cup {[key |-> ConclusionKey(ins, df, info), value |-> lines]}

(***************************************************************************)
(* The SQLite database of src/src/db_manager.py.  A table is the sequence  *)
(* of its rows in insertion order.  projects: project_id (AUTOINCREMENT),  *)
(* project_name (UNIQUE), the configuration columns.  monthly_analysis_    *)
(* data: project_id, date, the data columns; UNIQUE (project_id, date).    *)
(* No function deletes a project, so the next project_id is the number of  *)
(* project rows plus one.                                                  *)
(***************************************************************************)
\* SQL NULL in a REAL column.
NULL == [k |-> "null", n |-> 0, d |-> 1]

\* What sqlite3 stores for a bound float: NaN is stored as NULL.
SqlValue(x) == IF IsNaN(x) THEN NULL ELSE x

\* The configuration columns of a projects row (lines 113-136), of the keys the
\* model carries.
ProjectConfig(info) ==
    [commissioning_year |-> info.commissioning_year,
     irr_alert_threshold |-> info.irr_alert_threshold,
     degradation_rate |-> info.degradation_rate,
     energy_guarantee |-> info.energy_guarantee,
     temp_coeff |-> info.temp_coeff,
     forecast_period |-> info.forecast_period]

\* The tuple of one analysis row (lines 145-167).  date is strftime('%Y-%m-%d') of
\* the row's Date, one string per month index; pvsyst_yield_kwh is not a column
\* of the analysis table, so row.get gives None.
MonthlyRow(project_id, row) ==
    [project_id |-> project_id, date |-> row.Date,
     data |-> [actual_yield_kwh |-> SqlValue(row.actual_yield_kwh),
               expected_yield_kwh |-> SqlValue(row.expected_yield_kwh),
               ideal_yield_kwh |-> SqlValue(row.ideal_yield_kwh),
               temp_loss_kwh |-> SqlValue(row.temp_loss_kwh),
               other_losses_kwh |-> SqlValue(row.other_losses_kwh),
               yield_variance_kwh |-> SqlValue(row.yield_variance_kwh),
               yield_variance_percent |-> SqlValue(row.yield_variance_pct),
               actual_ghi_kwh_m2 |-> SqlValue(row.actual_ghi_kwh_m2),
               pvsyst_ghi_kwh_m2 |-> SqlValue(row.pvsyst_ghi_kwh_m2),
               irr_index_percent |-> SqlValue(row.irr_index_pct),
               irr_alert |-> row.irr_alert,
               pi_percent |-> SqlValue(row.pi_pct),
               actual_pr_percent |-> SqlValue(row.actual_pr_percent),
               pvsyst_pr_percent |-> SqlValue(row.pvsyst_pr_percent),
               pvsyst_yield_kwh |-> NULL,
               ambient_temp_c |-> SqlValue(row.ambient_temp_c),
               op_year |-> row.op_year, year |-> row.Year, month |-> row.Month]]

\* The DELETE of line 139 without its WHERE clause.
MonthlyAfterDeleteAll(monthly, project_id) == <<>>

\* The monthly rows with the DELETE of line 139 left out.
MonthlyAfterNoDelete(monthly, project_id) == monthly

\* monthly_analysis_data after DELETE ... WHERE project_id = ? (line 139).
MonthlyAfterDelete(monthly, project_id) ==
    SelectSeq(monthly, LAMBDA r : r.project_id # project_id)

DbFaults == {"none", "connect", "execute"}

\* The database keeping what the statements wrote before the exception.
KeepWritten(database, written) == written

\* The database after an exception (lines 182-186): conn.commit() of line 180 was
\* not reached and conn.close() discards the open transaction.
Rollback(database, written) == database

\* save_project_data (lines 87-187) on a database [projects, monthly].  fault:
\* "connect" when sqlite3.connect fails, "execute" when a statement raises
\* sqlite3.Error for a reason outside the program.  The INSERT of line 170 raises
\* IntegrityError when two rows would have the same (project_id, date).  An exception
\* skips conn.commit(); conn.close() then discards the open transaction.
save_project_data(database, info, df, fault) ==
    LET failed   == [db |-> database, project_id |-> None]
        existing == SelectSeq(database.projects, LAMBDA r : r.project_name = info.project_name)
        project_id == IF existing # <<>> THEN existing[1].project_id
                      ELSE Len(database.projects) + 1
        projects == IF existing # <<>>
                    THEN [i \in 1..Len(database.projects) |->
                             IF database.projects[i].project_id = project_id
                             THEN [database.projects[i] EXCEPT !.config = ProjectConfig(info)]
                             ELSE database.projects[i]]
                    ELSE Append(database.projects,
                                [project_id |-> project_id,
                                 project_name |-> info.project_name,
                                 config |-> ProjectConfig(info)])
        monthly  == MonthlyAfterDelete(database.monthly, project_id)
                    \o [i \in 1..Len(df) |-> MonthlyRow(project_id, df[i])]
        unique   == \A i, j \in 1..Len(monthly) :
                        i # j => \/ monthly[i].project_id # monthly[j].project_id
                                 \/ monthly[i].date # monthly[j].date
        written  == [projects |-> <<>> \o projects,
                     monthly |-> MonthlyAfterDelete(database.monthly, project_id)]
    IN  IF fault = "connect" \/ info.project_name = "" THEN failed
        ELSE IF fault = "execute" \/ ~unique
        THEN [db |-> Rollback(database, written), project_id |-> None]
        ELSE [db |-> [projects |-> <<>> \o projects, monthly |-> monthly],
              project_id |-> Some(project_id)]

\* load_project_data (lines 204-270): None when no project has the name, else the
\* project's configuration and its monthly rows ordered by date, without data_id
\* and project_id.
load_project_data(database, project_name) ==
    LET found == SelectSeq(database.projects, LAMBDA r : r.project_name = project_name)
        rows  == SelectSeq(database.monthly,
                           LAMBDA r : r.project_id = found[1].project_id)
        dates == SortedSeq({rows[i].date : i \in 1..Len(rows)})
    IN  IF found = <<>> THEN None
        ELSE Some([system_info |-> [project_name |-> project_name,
                                    config |-> found[1].config],
                   analysis_df |->
                       [i \in 1..Len(dates) |->
                           LET r == CHOOSE x \in {rows[k] : k \in 1..Len(rows)} :
                                        x.date = dates[i]
                           IN  [Date |-> r.date, data |-> r.data]]])

\* The database after create_tables (lines 21-85) on a new file.
EmptyDb == [projects |-> <<>>, monthly |-> <<>>]

(***************************************************************************)
(* Inputs.  The rows an uploaded workbook may hold, within the bounds.     *)
(***************************************************************************)
FirstYear == 2021

NumYears == 2

MaxShort == 2

\* A PVsyst baseline month: yields 100..140 kWh, irradiation 4 or 5 kWh/m2.
BaseRow(m) == BaselineRow(m, F(100 + 20 * (m % 3)), F(80), F(4 + (m % 2)))

BaselineKinds == {"full", "zero_ghi", "zero_yield", "missing", "empty"}

\* load_pvsyst_baseline's result for a workbook of each kind: twelve months; January
\* with zero irradiation; January with zero yield; February absent (a row with a
\* non-numeric cell is dropped by dropna, line 47); January alone; no usable row
\* at all.
Baseline(kind) ==
    CASE kind = "full"       -> [m \in 1..12 |-> BaseRow(m)]
      [] kind = "zero_ghi"   -> [m \in 1..12 |->
                                   IF m = 1 THEN BaselineRow(1, F(120), F(80), F(0))
                                   ELSE BaseRow(m)]
      [] kind = "zero_yield" -> [m \in 1..12 |->
                                   IF m = 1 THEN BaselineRow(1, F(0), F(80), F(5))
                                   ELSE BaseRow(m)]
      [] kind = "missing"    -> [i \in 1..11 |-> BaseRow(IF i = 1 THEN 1 ELSE i + 1)]
      [] kind = "january"    -> <<BaseRow(1)>>
      [] kind = "empty"      -> <<>>

\* The rows of the short tables: a nominal month, a month of zeros, a month whose
\* irradiation is 150 % of the baseline, a cool month, a hot month a year later.
ShortRows ==
    {ActualRow(FirstYear, 1, F(100), F(80), F(5), F(25)),
     ActualRow(FirstYear, 1, F(0), F(0), F(0), F(35)),
     ActualRow(FirstYear, 2, F(90), F(75), F(6), F(45)),
     ActualRow(FirstYear, 3, F(130), F(85), F(5), F(15)),
     ActualRow(FirstYear + 1, 1, F(60), F(70), F(4), F(55))}

RECURSIVE SeqsUpTo(_, _)
SeqsUpTo(S, n) ==
    IF n = 0 THEN {<<>>}
    ELSE SeqsUpTo(S, n - 1)
         \cup {Append(t, x) : t \in {u \in SeqsUpTo(S, n - 1) : Len(u) = n - 1}, x \in S}

ShortTables == SeqsUpTo(ShortRows, MaxShort)

\* The row of month m of year y in the year tables.
YearRow(y, m, extra) ==
    ActualRow(y, m, F(100 + 10 * ((m + y) % 4) + extra), F(78 + (m % 3)),
              F(4 + ((m + y) % 3)), F(20 + 5 * (m % 4)))

CoverKinds == {"none", "full", "eleven", "dup11", "dup12"}

\* The rows of year y: no row; the twelve months; January to November; January to
\* November and November again (12 rows, 11 months); the twelve months and December
\* again (13 rows, 12 months).
YearRows(y, cover) ==
    CASE cover = "none"   -> <<>>
      [] cover = "full"   -> [m \in 1..12 |-> YearRow(y, m, 0)]
      [] cover = "eleven" -> [m \in 1..11 |-> YearRow(y, m, 0)]
      [] cover = "dup11"  -> [m \in 1..11 |-> YearRow(y, m, 0)] \o <<YearRow(y, 11, 1)>>
      [] cover = "dup12"  -> [m \in 1..12 |-> YearRow(y, m, 0)] \o <<YearRow(y, 12, 1)>>

YearTable(covers) == Flatten([i \in 1..NumYears |-> YearRows(FirstYear + i - 1, covers[i])])

\* Every cover of the first two years; a later year is absent or complete.
YearTables ==
    {YearTable(c) : c \in {f \in [1..NumYears -> CoverKinds] :
                              \A i \in 3..NumYears : f[i] \in {"none", "full"}}}

\* The system_info dictionary (baseline_validator_page.py lines 93-105, edited by the
\* widgets of app_pages.py lines 41-58); the keys the analysis reads.
SystemInfo(cy, tc, thr, degr, guar, fp) ==
    [project_name |-> "P", commissioning_year |-> cy, temp_coeff |-> tc,
     irr_alert_threshold |-> thr, degradation_rate |-> degr,
     energy_guarantee |-> guar, forecast_period |-> fp]

\* The dictionary 'Confirm & Proceed' writes (baseline_validator_page.py lines 93-105),
\* with a degradation rate of 20 % where the page writes 0.5 %: the exact powers of
\* 199/200 over a ten-year forecast do not fit TLC's integers.
ConfirmedInfo == SystemInfo(2020, Q(-38, 100), F(20), F(20), F(1500), 10)

\* Parameter sets the widgets allow: the defaults with the shortest forecast; a
\* plant commissioned after the first data year, with a steep temperature
\* coefficient and the narrowest alert band; the widest band and total degradation.
YearInfos ==
    {SystemInfo(2020, Q(-38, 100), F(20), F(20), F(1500), 5),
     SystemInfo(2022, F(-5), F(5), F(0), F(1500), 6)}

Infos == YearInfos \cup {SystemInfo(2020, Q(-38, 100), F(50), F(100), F(1000), 5)}

\* What the libraries may return in one run: the trend varies under the default
\* outlier result and sort order; outlier result and sort order vary under one trend.
Oracles ==
    {[trend |-> t, anom |-> "none", tie |-> "stable"] : t \in Trends}
    \cup {[trend |-> "flat", anom |-> a, tie |-> x] : a \in Anoms, x \in Ties}

(***************************************************************************)
(* The session.                                                            *)
(***************************************************************************)
\* The main application is rendered (streamlit_app.py lines 104-109).
MainAppShown == logged_in /\ baseline_confirmed

\* The baseline validation page is rendered.
BaselinePageShown == logged_in /\ ~baseline_confirmed

session == <<logged_in, baseline_confirmed, validation_results, system_info, pvsyst_df,
             actual_df, analysis_df, insights, conclusion_text_list, forecast_df,
             forecast_monthly, full_years_df, anomaly_flags>>

results == <<analysis_df, insights, conclusion_text_list, forecast_df,
             forecast_monthly, full_years_df, anomaly_flags,
             short_term_forecast_result, guarantee_df, loss_breakdown_figs>>

\* What outlives a session: the caches of the server process and the database file.
process == <<phase2_cache, conclusion_cache, db>>

\* login_form with valid credentials (streamlit_app.py lines 54-65).
Login ==
    /\ ~logged_in
    /\ logged_in' = TRUE
    /\ UNCHANGED <<baseline_confirmed, validation_results, system_info, pvsyst_df,
                   actual_df, results, process, last_call, fn_call>>

AppBaselines == {Baseline("full"), Baseline("missing")}

\* 'Run AI Baseline Analysis' (baseline_validator_page.py lines 50-74): the loaded
\* baseline is kept with its score when validate_pvsyst_baseline returns one.
RunBaselineAnalysis ==
    /\ BaselinePageShown
    /\ \E b \in AppBaselines, scored \in BOOLEAN :
          validation_results' =
              IF scored THEN Some([pvsyst_df |-> b, project_name |-> "P"])
              ELSE validation_results
    /\ UNCHANGED <<logged_in, baseline_confirmed, system_info, pvsyst_df, actual_df,
                   results, process, last_call, fn_call>>

\* A confirmation offered without validation results.
ConfirmWithoutValidation ==
    /\ BaselinePageShown
    /\ baseline_confirmed' = TRUE
    /\ UNCHANGED <<logged_in, validation_results, system_info, pvsyst_df, actual_df,
                   results, process, last_call, fn_call>>

\* 'Confirm & Proceed' (baseline_validator_page.py lines 92-109).
ConfirmProceed ==
    /\ BaselinePageShown
    /\ validation_results # None
    /\ system_info' = Some(ConfirmedInfo)
    /\ pvsyst_df' = Some(Get(validation_results).pvsyst_df)
    /\ baseline_confirmed' = TRUE
    /\ validation_results' = None
    /\ UNCHANGED <<logged_in, actual_df, results, process, last_call, fn_call>>

\* 'Reject & Re-upload' (baseline_validator_page.py lines 112-114).
RejectReupload ==
    /\ BaselinePageShown
    /\ validation_results # None
    /\ validation_results' = None
    /\ UNCHANGED <<logged_in, baseline_confirmed, system_info, pvsyst_df, actual_df,
                   results, process, last_call, fn_call>>

AppActuals ==
    {<<ActualRow(FirstYear, 2, F(90), F(75), F(6), F(45)),
       ActualRow(FirstYear, 3, F(130), F(85), F(5), F(15))>>,
     YearRows(FirstYear, "full")}

\* The file uploader of the home page (app_pages.py lines 64-75): a workbook that
\* loads, or none (or one that fails to load).
UploadActual ==
    /\ MainAppShown
    /\ \E a \in {Some(t) : t \in AppActuals} \cup {None} : actual_df' = a
    /\ UNCHANGED <<logged_in, baseline_confirmed, validation_results, system_info,
                   pvsyst_df, results, process, last_call, fn_call>>

\* The parameter widgets of the home page (app_pages.py lines 41-58) write into
\* system_info; the project name is not editable.
AppInfos == {ConfirmedInfo, SystemInfo(2020, Q(-38, 100), F(50), F(100), F(1000), 5)}

EditInfo ==
    /\ MainAppShown
    /\ \E i \in AppInfos : system_info' = Some(i)
    /\ UNCHANGED <<logged_in, baseline_confirmed, validation_results, pvsyst_df,
                   actual_df, results, process, last_call, fn_call>>

\* The body of 'Run Full Analysis & Save Project' (app_pages.py lines 86-132) with
\* the library results o: the cached analysis, the save, the narrative, the
\* forecasts, the guarantee table, the loss breakdowns.  The database connects
\* and executes without outside fault.  An exception ends the handler where it
\* is raised; what was stored before stays stored.
RunFullAnalysis(o) ==
    LET act  == Get(actual_df)
        pv   == Get(pvsyst_df)
        info == Get(system_info)
    IN  \E res \in {CachedPhase2(phase2_cache, act, pv, info, o.tie)} :
        \E saved \in {save_project_data(db, info, res.df, "none")},
           hit \in {CachedConclusion(conclusion_cache, res.insights, res.df, info)},
           flags \in {detect_anomalies_with_ml(res.df, o.anom)},
           stf \in {calculate_short_term_forecast(res.df, o.trend)},
           fy \in {GetFullYearsDf(res.df)} :
        \E concl \in {IF hit # None THEN [raised |-> FALSE, lines |-> Get(hit)]
                      ELSE generate_conclusion_text_phase2(res.insights, res.df, info,
                                                           flags, stf)} :
        \* The line the handler reaches: 102 raised, 109 raised, 121 raised, or its end.
        LET reached == IF concl.raised THEN 102
                       ELSE IF stf.raised THEN 109
                       ELSE IF ~LongTermUnavailable(fy, pv) /\ ~ProphetFits(fy) THEN 121
                       ELSE 132
        IN  /\ phase2_cache' = CacheAfter(phase2_cache, act, pv, info, res)
            /\ last_call' = Some([actual_df |-> act, pvsyst_df |-> pv,
                                  system_info |-> info, oracle |-> o,
                                  project_id |-> saved.project_id, reached |-> reached])
            /\ analysis_df' = Some(res.df)
            /\ insights' = Some(res.insights)
            /\ db' = saved.db
            \* Line 195 runs on a cache miss only, and adds is_anomaly to the caller's table.
            /\ anomaly_flags' = IF hit # None THEN None ELSE Some(flags)
            /\ conclusion_cache' =
                   IF hit = None /\ ~concl.raised
                   THEN ConclusionCacheAfter(conclusion_cache, res.insights, res.df, info,
                                             concl.lines)
                   ELSE conclusion_cache
            /\ conclusion_text_list' =
                   IF reached > 102 THEN Some(concl.lines) ELSE conclusion_text_list
            /\ short_term_forecast_result' =
                   IF reached > 109 THEN Some(stf.result) ELSE short_term_forecast_result
            /\ guarantee_df' =
                   IF reached > 109 THEN Some(create_yearly_yield_guarantee_data(res.df, info))
                   ELSE guarantee_df
            /\ IF reached < 132
               THEN UNCHANGED <<forecast_df, forecast_monthly, full_years_df,
                                loss_breakdown_figs>>
               ELSE /\ loss_breakdown_figs' =
                           Some([overall |->
                                     Get(get_loss_breakdown_data(res.df, Some(res.insights),
                                                                 "overall").result),
                                 latest_month |->
                                     Get(get_loss_breakdown_data(res.df, None,
                                                                 "latest_month").result)])
                    /\ full_years_df' = Some(fy)
                    /\ IF LongTermUnavailable(fy, pv)
                       THEN /\ forecast_df' = Some(<<>>)
                            /\ forecast_monthly' = Some(<<>>)
                       ELSE \E monthly \in {ForecastMonthly(fy, pv, info, o.trend)} :
                            /\ forecast_df' = Some(ForecastYearly(monthly, fy, res.df, info))
                            /\ forecast_monthly' = Some(monthly)

AppOracles ==
    {[trend |-> "flat", anom |-> "none", tie |-> "stable"],
     [trend |-> "up", anom |-> "first", tie |-> "stable"]}

RunButton(os) ==
    /\ MainAppShown
    /\ actual_df # None
    /\ \E o \in os : RunFullAnalysis(o)
    /\ UNCHANGED <<logged_in, baseline_confirmed, validation_results, system_info,
                   pvsyst_df, actual_df, fn_call>>

RunAnalysis == RunButton(AppOracles)

\* A logout that clears logged_in and leaves the other keys.
LogoutKeepsSession ==
    /\ MainAppShown
    /\ logged_in' = FALSE
    /\ UNCHANGED <<baseline_confirmed, validation_results, system_info, pvsyst_df,
                   actual_df, results, process, last_call, fn_call>>

\* 'Logout & Start Over' (streamlit_app.py lines 78-81) and the rerun's
\* initialisation (lines 8-11): every session key is deleted; the caches and the
\* database are not session keys.
Logout ==
    /\ MainAppShown
    /\ logged_in' = FALSE
    /\ baseline_confirmed' = FALSE
    /\ validation_results' = None
    /\ system_info' = None
    /\ pvsyst_df' = None
    /\ actual_df' = None
    /\ analysis_df' = None
    /\ insights' = None
    /\ conclusion_text_list' = None
    /\ forecast_df' = None
    /\ forecast_monthly' = None
    /\ full_years_df' = None
    /\ anomaly_flags' = None
    /\ short_term_forecast_result' = None
    /\ guarantee_df' = None
    /\ loss_breakdown_figs' = None
    /\ last_call' = None
    /\ UNCHANGED <<process, fn_call>>

\* A new server process and a new browser session.
Init ==
    /\ logged_in = FALSE
    /\ baseline_confirmed = FALSE
    /\ validation_results = None
    /\ system_info = None
    /\ pvsyst_df = None
    /\ actual_df = None
    /\ analysis_df = None
    /\ insights = None
    /\ conclusion_text_list = None
    /\ forecast_df = None
    /\ forecast_monthly = None
    /\ full_years_df = None
    /\ anomaly_flags = None
    /\ short_term_forecast_result = None
    /\ guarantee_df = None
    /\ loss_breakdown_figs = None
    /\ phase2_cache = {}
    /\ conclusion_cache = {}
    /\ db = EmptyDb
    /\ last_call = None
    /\ fn_call = None

Next ==
    \/ Login
    \/ RunBaselineAnalysis
    \/ ConfirmProceed
    \/ RejectReupload
    \/ UploadActual
    \/ EditInfo
    \/ RunAnalysis
    \/ Logout

Spec == Init /\ [][Next]_vars

(***************************************************************************)
(* One analysis run on arbitrary inputs: a new server process in which the *)
(* user has logged in, confirmed a baseline, set the parameters and        *)
(* uploaded the actual data, and now presses the button once.              *)
(***************************************************************************)
CoreInputs ==
    {[a |-> a, b |-> Baseline(k), i |-> i] :
        a \in ShortTables, k \in BaselineKinds, i \in Infos}
    \cup {[a |-> a, b |-> Baseline(k), i |-> i] :
        a \in YearTables, k \in {"full", "missing"}, i \in YearInfos}

InitCore ==
    /\ logged_in = TRUE
    /\ baseline_confirmed = TRUE
    /\ validation_results = None
    /\ \E in \in CoreInputs :
          /\ system_info = Some(in.i)
          /\ pvsyst_df = Some(in.b)
          /\ actual_df = Some(in.a)
    /\ analysis_df = None
    /\ insights = None
    /\ conclusion_text_list = None
    /\ forecast_df = None
    /\ forecast_monthly = None
    /\ full_years_df = None
    /\ anomaly_flags = None
    /\ short_term_forecast_result = None
    /\ guarantee_df = None
    /\ loss_breakdown_figs = None
    /\ phase2_cache = {}
    /\ conclusion_cache = {}
    /\ db = EmptyDb
    /\ last_call = None
    /\ fn_call = None

\* The first run of the session.
FirstRun ==
    /\ analysis_df = None
    /\ RunButton(Oracles)

NextCore == FirstRun

SpecCore == InitCore /\ [][NextCore]_vars

(***************************************************************************)
(* Direct calls of the functions of src/src/analysis.py on an analysis     *)
(* table perform_phase2_analysis returned: the state holds the table, its  *)
(* insights and the inputs; one function is called once.                   *)
(***************************************************************************)
\* 24 months over two calendar years.
TwoYears == YearRows(FirstYear, "full") \o YearRows(FirstYear + 1, "full")

\* Commissioned in the first data year, degradation 0.5 %, guarantee 1600 MWh.
ScenarioInfo == SystemInfo(FirstYear, Q(-38, 100), F(20), Q(1, 2), F(1600), 10)

\* Commissioned the year after the first data year, degradation 20 %.
LateInfo == SystemInfo(FirstYear + 1, Q(-38, 100), F(20), F(20), F(1500), 2)

\* Tables with a calendar year without rows between two years with rows.
GapTables ==
    {<<YearRow(FirstYear, 1, 0), YearRow(FirstYear + 2, 3, 0)>>,
     YearRows(FirstYear, "full") \o <<YearRow(FirstYear + 3, 5, 0)>>}

\* The inputs of one run; the two-year scenario; tables with a gap; data that
\* begin before the commissioning year; six and more records over a baseline of
\* one month or none.
FnInputs ==
    CoreInputs
    \cup {[a |-> TwoYears, b |-> Baseline("full"), i |-> ScenarioInfo]}
    \cup {[a |-> t, b |-> Baseline("full"), i |-> i] : t \in GapTables, i \in YearInfos}
    \cup {[a |-> t, b |-> Baseline("full"), i |-> LateInfo] :
             t \in {YearRows(FirstYear, "full"), TwoYears}}
    \cup {[a |-> t, b |-> Baseline(k), i |-> i] :
             t \in {YearRows(FirstYear, "eleven"), YearRows(FirstYear, "full"), TwoYears},
             k \in {"january", "empty"}, i \in YearInfos}

InitFn ==
    /\ logged_in = TRUE
    /\ baseline_confirmed = TRUE
    /\ validation_results = None
    /\ \E in \in FnInputs, tie \in Ties :
       \E p \in {Phase2(in.a, in.b, in.i, tie)} :
          /\ system_info = Some(in.i)
          /\ pvsyst_df = Some(in.b)
          /\ actual_df = Some(in.a)
          /\ analysis_df = Some(p.df)
          /\ insights = Some(p.insights)
    /\ conclusion_text_list = None
    /\ forecast_df = None
    /\ forecast_monthly = None
    /\ full_years_df = None
    /\ anomaly_flags = None
    /\ short_term_forecast_result = None
    /\ guarantee_df = None
    /\ loss_breakdown_figs = None
    /\ phase2_cache = {}
    /\ conclusion_cache = {}
    /\ db = EmptyDb
    /\ last_call = None
    /\ fn_call = None

\* Everything but fn_call.
inputs == <<logged_in, baseline_confirmed, validation_results, system_info, pvsyst_df,
            actual_df, results, process, last_call>>

Periods == {"overall", "latest_month", "yearly", ""}

\* get_loss_breakdown_data(analysis_df, insights or nothing, period).
CallLossBreakdown ==
    /\ fn_call = None
    /\ \E period \in Periods, ins \in {None, insights} :
       \E r \in {get_loss_breakdown_data(Get(analysis_df), ins, period)} :
          fn_call' = Some([fn |-> "get_loss_breakdown_data", period |-> period,
                           insights |-> ins, raised |-> r.raised, result |-> r.result])
    /\ UNCHANGED inputs

\* create_yearly_yield_guarantee_data(analysis_df, system_info).
CallYearlyGuarantee ==
    /\ fn_call = None
    /\ fn_call' = Some([fn |-> "create_yearly_yield_guarantee_data",
                        result |-> create_yearly_yield_guarantee_data(Get(analysis_df),
                                                                      Get(system_info))])
    /\ UNCHANGED inputs

\* calculate_short_term_forecast(analysis_df), Prophet predicting trend.
CallShortTermForecast ==
    /\ fn_call = None
    /\ \E trend \in Trends :
       \E r \in {calculate_short_term_forecast(Get(analysis_df), trend)} :
          fn_call' = Some([fn |-> "calculate_short_term_forecast", trend |-> trend,
                           raised |-> r.raised, fitted |-> r.fitted, result |-> r.result])
    /\ UNCHANGED inputs

\* calculate_long_term_forecast(analysis_df, pvsyst_df, system_info), Prophet
\* predicting trend.  (Not called with the 0.5 % rate of ScenarioInfo, whose powers
\* over a forecast period leave the integers of the model.)
CallLongTermForecast ==
    /\ fn_call = None
    /\ Get(system_info) # ScenarioInfo
    /\ \E trend \in Trends :
       \E r \in {calculate_long_term_forecast(Get(analysis_df), Get(pvsyst_df),
                                              Get(system_info), trend)} :
          fn_call' = Some([fn |-> "calculate_long_term_forecast", trend |-> trend,
                           raised |-> r.raised, fitted |-> r.fitted, result |-> r.result])
    /\ UNCHANGED inputs

NextFn ==
    \/ CallLossBreakdown
    \/ CallYearlyGuarantee
    \/ CallShortTermForecast
    \/ CallLongTermForecast

SpecFn == InitFn /\ [][NextFn]_vars

(***************************************************************************)
(* Direct calls of save_project_data on one database file.                 *)
(***************************************************************************)
\* A project name; the empty name is refused (line 103).
DbNames == {"P", "Q", ""}

\* Two configurations per name.
DbInfos ==
    {[i EXCEPT !.project_name = n] :
        i \in {ConfirmedInfo, SystemInfo(2022, F(-5), F(5), F(0), F(1500), 6)},
        n \in DbNames}

\* Analysis tables to save: none, one and two records, a February without baseline
\* entry, two records of the same month.
DbTables ==
    {Phase2(a, Baseline("missing"), ConfirmedInfo, "stable").df :
        a \in {<<>>,
               <<ActualRow(FirstYear, 1, F(100), F(80), F(5), F(25))>>,
               <<ActualRow(FirstYear, 1, F(100), F(80), F(5), F(25)),
                 ActualRow(FirstYear, 2, F(90), F(75), F(6), F(45))>>,
               <<ActualRow(FirstYear, 1, F(100), F(80), F(5), F(25)),
                 ActualRow(FirstYear, 1, F(0), F(0), F(0), F(35))>>}}

InitDb ==
    /\ logged_in = FALSE
    /\ baseline_confirmed = FALSE
    /\ validation_results = None
    /\ system_info = None
    /\ pvsyst_df = None
    /\ actual_df = None
    /\ analysis_df = None
    /\ insights = None
    /\ conclusion_text_list = None
    /\ forecast_df = None
    /\ forecast_monthly = None
    /\ full_years_df = None
    /\ anomaly_flags = None
    /\ short_term_forecast_result = None
    /\ guarantee_df = None
    /\ loss_breakdown_figs = None
    /\ phase2_cache = {}
    /\ conclusion_cache = {}
    /\ db = EmptyDb
    /\ last_call = None
    /\ fn_call = None

\* save_project_data(system_info, analysis_df) under each outside condition.
SaveProjectData ==
    /\ \E info \in DbInfos, df \in DbTables, fault \in DbFaults :
       \E r \in {save_project_data(db, info, df, fault)} :
          /\ db' = r.db
          /\ fn_call' = Some([fn |-> "save_project_data", system_info |-> info,
                              analysis_df |-> df, fault |-> fault,
                              project_id |-> r.project_id])
    /\ UNCHANGED <<logged_in, baseline_confirmed, validation_results, system_info,
                   pvsyst_df, actual_df, results, phase2_cache, conclusion_cache,
                   last_call>>

NextDb == SaveProjectData

SpecDb == InitDb /\ [][NextDb]_vars

(***************************************************************************)
(* Properties of one analysis run (SpecCore) and of the session (Spec).    *)
(***************************************************************************)
\* The analysis table of the state; empty before the first run.
Table == IF analysis_df = None THEN <<>> ELSE Get(analysis_df)

\* C1 as stated.  Accounting identity: in every record of the analysis table,
\* expected_yield_kwh = ideal_yield_kwh + temp_loss_kwh, other_losses_kwh =
\* expected_yield_kwh - actual_yield_kwh and yield_variance_kwh = -other_losses_kwh
\* (a missing value is taken to equal a missing value).
C1_AccountingIdentity ==
    \A i \in 1..Len(Table) :
        LET r == Table[i]
        IN  /\ r.expected_yield_kwh = Add(r.ideal_yield_kwh, r.temp_loss_kwh)
            /\ r.other_losses_kwh = Sub(r.expected_yield_kwh, r.actual_yield_kwh)
            /\ r.yield_variance_kwh = Neg(r.other_losses_kwh)

\* C1 Accounting identity with the floor: in every record of the analysis table,
\* expected_yield_kwh is ideal_yield_kwh + temp_loss_kwh when that sum is at least
\* 0.01, is 0.01 when the sum is below 0.01, and is missing when the sum is missing
\* (the record's month has no baseline entry); other_losses_kwh =
\* expected_yield_kwh - actual_yield_kwh and yield_variance_kwh = -other_losses_kwh.
C1_AccountingIdentityFloored ==
    \A i \in 1..Len(Table) :
        LET r   == Table[i]
            sum == Add(r.ideal_yield_kwh, r.temp_loss_kwh)
        IN  /\ r.expected_yield_kwh =
                   (IF IsNaN(sum) THEN NaN
                    ELSE IF Lt(sum, Q(1, 100)) THEN Q(1, 100)
                    ELSE sum)
            /\ r.other_losses_kwh = Sub(r.expected_yield_kwh, r.actual_yield_kwh)
            /\ r.yield_variance_kwh = Neg(r.other_losses_kwh)

\* A run stored a record whose ideal yield plus temperature loss is below 0.01 and
\* whose expected yield is the floor.
C1_Witness ==
    \E i \in 1..Len(Table) :
        /\ Lt(Add(Table[i].ideal_yield_kwh, Table[i].temp_loss_kwh), Q(1, 100))
        /\ Table[i].expected_yield_kwh = Q(1, 100)
        /\ Table[i].other_losses_kwh = Sub(Q(1, 100), Table[i].actual_yield_kwh)

\* C2 Memoization keyed by the exact inputs: after every run, the stored analysis
\* table and insights are those perform_phase2_analysis computes from the actual
\* data, baseline and configuration of that run.
C2_MemoKeyedByInputs ==
    analysis_df # None =>
        \E tie \in Ties :
            LET c == Get(last_call)
                p == Phase2(c.actual_df, c.pvsyst_df, c.system_info, tie)
            IN  analysis_df = Some(p.df) /\ insights = Some(p.insights)

\* C3 Expected-yield floor: every record of the analysis table has
\* expected_yield_kwh >= 0.01.
C3_ExpectedYieldFloor ==
    \A i \in 1..Len(Table) : Ge(Table[i].expected_yield_kwh, Q(1, 100))

\* C4 No non-finite propagation: every derived field of every record of the
\* analysis table is a defined finite number.
C4_NoNonFinite ==
    \A i \in 1..Len(Table) :
        LET r == Table[i]
        IN  /\ IsFinite(r.irr_index_pct)
            /\ IsFinite(r.ideal_yield_kwh)
            /\ IsFinite(r.temp_loss_kwh)
            /\ IsFinite(r.expected_yield_kwh)
            /\ IsFinite(r.pi_pct)
            /\ IsFinite(r.other_losses_kwh)
            /\ IsFinite(r.yield_variance_kwh)
            /\ IsFinite(r.yield_variance_pct)

\* C5 Missing baseline month: the join never produces a joined or enriched record
\* for a month-of-year that has no baseline entry (the run fails instead).
C5_MissingBaselineMonthFails ==
    \A i \in 1..Len(Table) :
        \E j \in 1..Len(Get(pvsyst_df)) : Get(pvsyst_df)[j].Month = Table[i].Month

\* C6 Yield-weighted average: Average PI (%) is 100 x (sum of actual_yield_kwh) /
\* (sum of expected_yield_kwh) over the records of the analysis table and 0 when
\* that denominator is 0, and Total Actual Yield (MWh) is the sum of
\* actual_yield_kwh divided by 1000 (sums as pandas takes them: a missing cell
\* adds nothing).
C6_YieldWeightedAverage ==
    insights # None =>
        LET sum_actual   == SumSeq(Col(Table, "actual_yield_kwh"))
            sum_expected == SumSeq(Col(Table, "expected_yield_kwh"))
        IN  /\ Get(insights).Average_PI_pct =
                   (IF sum_expected = F(0) THEN F(0)
                    ELSE Mul(Div(sum_actual, sum_expected), F(100)))
            /\ Get(insights).Total_Actual_Yield_MWh = Div(sum_actual, F(1000))

\* A run over two records with finite performance indices whose yield-weighted
\* average differs from the mean of the two indices.
C6_Witness ==
    /\ insights # None
    /\ Len(Table) = 2
    /\ \A i \in 1..2 : IsFinite(Table[i].pi_pct)
    /\ Get(insights).Average_PI_pct # MeanSeq(Col(Table, "pi_pct"))
    /\ Gt(Get(insights).Average_PI_pct, F(0))

\* The long-term tables of the state; empty before a forecast is stored.
Yearly == IF forecast_df = None THEN <<>> ELSE Get(forecast_df)

Monthly == IF forecast_monthly = None THEN <<>> ELSE Get(forecast_monthly)

\* The sum of year y's monthly forecast yields, in MWh.
PredictedMWh(y) == Div(YearSum(Monthly, "Forecasted_Monthly_Yield_kWh", y), F(1000))

\* The sum of year y's actual yields in the analysis table, in MWh.
ActualMWh(y) == Div(YearSum(Table, "actual_yield_kwh", y), F(1000))

\* C7 as stated.  Guarantee override: every year of the long-term table for which
\* the analysis table holds actual data, complete or not, reports the sum of that
\* year's actual yield; the model's prediction appears only for years without
\* actual data.
C7_OverrideAnyYearWithData ==
    \A i \in 1..Len(Yearly) :
        Yearly[i].Forecasted_Yield_MWh =
            (IF Yearly[i].Year \in Years(Table) THEN ActualMWh(Yearly[i].Year)
             ELSE PredictedMWh(Yearly[i].Year))

\* C7 Guarantee override of complete years: every year of the long-term table with
\* all 12 calendar months present in the analysis table reports the sum of that
\* year's actual yield; every other year of the table, one with actual data for
\* fewer than 12 months included, reports the sum of the model's monthly forecast;
\* and an incomplete year has a row only when it is later than every complete year.
C7_OverrideFullYears ==
    \A i \in 1..Len(Yearly) :
        LET y == Yearly[i].Year
        IN  IF month_counts(Table, y) = 12
            THEN Yearly[i].Forecasted_Yield_MWh = ActualMWh(y)
            ELSE /\ Yearly[i].Forecasted_Yield_MWh = PredictedMWh(y)
                 /\ \A z \in Years(Table) : month_counts(Table, z) = 12 => z < y

\* A long-term table with a complete year reporting its actual yield and an
\* incomplete year with actual data reporting the model's prediction, which
\* is not that year's actual sum.
C7_Witness ==
    /\ \E i \in 1..Len(Yearly) :
          /\ month_counts(Table, Yearly[i].Year) = 12
          /\ Yearly[i].Forecasted_Yield_MWh = ActualMWh(Yearly[i].Year)
          /\ Yearly[i].Forecasted_Yield_MWh # PredictedMWh(Yearly[i].Year)
    /\ \E i \in 1..Len(Yearly) :
          /\ Yearly[i].Year \in Years(Table)
          /\ month_counts(Table, Yearly[i].Year) < 12
          /\ Yearly[i].Forecasted_Yield_MWh = PredictedMWh(Yearly[i].Year)
          /\ Yearly[i].Forecasted_Yield_MWh # ActualMWh(Yearly[i].Year)

\* The trend model's prediction for month index date in the last run.
Predicted(date) ==
    LET fy == GetFullYearsDf(Table)
    IN  Yhat(Get(last_call).oracle.trend, date, Max({fy[i].Date : i \in 1..Len(fy)}))

\* C8 Long-term clip: every monthly performance index of the long-term forecast is
\* the prediction when that lies in [50, 110], exactly 110 when the prediction is
\* above and exactly 50 when it is below; and the month's forecast yield lies
\* between 0.5 and 1.1 times the month's baseline yield.
C8_LongTermClip ==
    \A i \in 1..Len(Monthly) :
        LET m == Monthly[i]
            p == Predicted(m.Date)
        IN  /\ m.Forecasted_PI_pct =
                   (IF Gt(p, F(110)) THEN F(110) ELSE IF Lt(p, F(50)) THEN F(50) ELSE p)
            /\ Ge(m.Forecasted_PI_pct, F(50))
            /\ Le(m.Forecasted_PI_pct, F(110))
            /\ ~IsNaN(m.pvsyst_yield_kwh) =>
                   /\ Ge(m.Forecasted_Monthly_Yield_kWh, Mul(m.pvsyst_yield_kwh, Q(1, 2)))
                   /\ Le(m.Forecasted_Monthly_Yield_kWh, Mul(m.pvsyst_yield_kwh, Q(11, 10)))

\* A monthly forecast in which a prediction above 110 was clipped to 110, with a
\* yield of 1.1 times a positive baseline yield.
C8_Witness ==
    \E i \in 1..Len(Monthly) :
        /\ Gt(Predicted(Monthly[i].Date), F(110))
        /\ Monthly[i].Forecasted_PI_pct = F(110)
        /\ Gt(Monthly[i].pvsyst_yield_kwh, F(0))
        /\ Monthly[i].Forecasted_Monthly_Yield_kWh =
               Mul(Monthly[i].pvsyst_yield_kwh, Q(11, 10))

\* The number of distinct months among the records of year y in the analysis table.
DistinctMonths(y) ==
    Cardinality({m \in 1..12 : \E i \in 1..Len(Table) :
                                  Table[i].Year = y /\ Table[i].Month = m})

\* C9 Full-year filter: the stored full-years table holds exactly the records of
\* the analysis table, in order, whose calendar year has 12 distinct months.
C9_FullYearFilter ==
    full_years_df # None =>
        Get(full_years_df) = SelectSeq(Table, LAMBDA r : DistinctMonths(r.Year) = 12)

\* A filtered table that dropped a year of 12 records over 11 distinct months and
\* kept a year of 13 records over 12 distinct months.
C9_Witness ==
    /\ full_years_df # None
    /\ \E y \in Years(Table) :
          /\ Len(SelectSeq(Table, LAMBDA r : r.Year = y)) = 12
          /\ DistinctMonths(y) = 11
          /\ y \notin Years(Get(full_years_df))
    /\ \E y \in Years(Table) :
          /\ Len(SelectSeq(Table, LAMBDA r : r.Year = y)) = 13
          /\ DistinctMonths(y) = 12
          /\ Len(SelectSeq(Get(full_years_df), LAMBDA r : r.Year = y)) = 13

\* C10 Sensor-check recommendation: whenever the sensor alert count is greater
\* than 0 the narrative holds the sensor-check recommendation, and the 'performing
\* optimally' line appears only when the count is 0.
C10_SensorCheckRecommendation ==
    conclusion_text_list # None =>
        LET lines == Get(conclusion_text_list)
            has(text) == \E i \in 1..Len(lines) : lines[i].text = text
        IN  /\ Get(insights).Sensor_Alerts_Count > 0 => has(SENSOR_REC)
            /\ has(OPTIMAL) => Get(insights).Sensor_Alerts_Count = 0

(***************************************************************************)
(* Properties of the direct calls (SpecFn).                                *)
(***************************************************************************)
\* The call made, a record with field fn; [fn |-> "none"] before the call.
Call == IF fn_call = None THEN [fn |-> "none"] ELSE Get(fn_call)

\* The scenario: 24 records over two calendar years, commissioned in the first of
\* them, degradation rate 0.5 %, guarantee 1600 MWh per year.
Scenario ==
    /\ Len(Get(actual_df)) = 24
    /\ Cardinality(Years(Table)) = 2
    /\ Get(system_info).commissioning_year = Min(Years(Table))
    /\ Get(system_info).degradation_rate = Q(1, 2)
    /\ Get(system_info).energy_guarantee = F(1600)

\* C11 as stated: in the scenario the yearly guarantee table has exactly the
\* observed years, and the guarantee of each year is 1600 x (1 - 0.005)^(year -
\* commissioning year).
C11_DegradedGuaranteePerYear ==
    (Call.fn = "create_yearly_yield_guarantee_data" /\ Scenario) =>
        /\ {Call.result[i].Year : i \in 1..Len(Call.result)} = Years(Table)
        /\ Len(Call.result) = 2
        /\ \A i \in 1..Len(Call.result) :
              Call.result[i].Energy_Guarantee_MWh =
                  Mul(F(1600), Pow(Q(199, 200), Call.result[i].Year
                                                - Get(system_info).commissioning_year))

\* C11 Scenario guarantee table: in the scenario the yearly guarantee table has
\* exactly the two observed years, in ascending order, and every year carries the
\* configured guarantee of 1600 MWh, not decayed by the degradation rate.
C11_ScenarioGuaranteeTable ==
    (Call.fn = "create_yearly_yield_guarantee_data" /\ Scenario) =>
        /\ Len(Call.result) = 2
        /\ Call.result[1].Year = Min(Years(Table))
        /\ Call.result[2].Year = Max(Years(Table))
        /\ Call.result[1].Year < Call.result[2].Year
        /\ \A i \in 1..2 : Call.result[i].Energy_Guarantee_MWh = F(1600)

\* The scenario's table was built: its second year carries 1600 where the decayed
\* guarantee is 1592.
C11_Witness ==
    /\ Call.fn = "create_yearly_yield_guarantee_data"
    /\ Scenario
    /\ Call.result[2].Year = Get(system_info).commissioning_year + 1
    /\ Call.result[2].Energy_Guarantee_MWh = F(1600)
    /\ DegradedGuaranteeOfYear(Get(system_info), Call.result[2].Year) = F(1592)

\* C12 as stated: every call of get_loss_breakdown_data with a period other than
\* 'overall' and 'latest_month' raises the invalid-period error and returns no
\* breakdown, and no call on an empty table returns normally.
C12_InvalidPeriodAlwaysFails ==
    Call.fn = "get_loss_breakdown_data" =>
        /\ Call.period \notin {"overall", "latest_month"} =>
               Call.raised = INVALID_PERIOD /\ Call.result = None
        /\ Table = <<>> => Call.raised # NO_ERROR

\* C12 Invalid period: on a non-empty table every call of get_loss_breakdown_data
\* with a period other than 'overall' and 'latest_month' raises the invalid-period
\* error and returns no breakdown; on an empty table every call, whatever its
\* period, returns the all-zero breakdown labelled 'no data' without raising.
C12_InvalidPeriod ==
    Call.fn = "get_loss_breakdown_data" =>
        /\ (Table # <<>> /\ Call.period \notin {"overall", "latest_month"}) =>
               Call.raised = INVALID_PERIOD /\ Call.result = None
        /\ Table = <<>> =>
               /\ Call.raised = NO_ERROR
               /\ Call.result = Some(Breakdown(F(0), F(0), F(0), F(0), "no data", 0))

\* A call with period 'yearly' on a table with records raised the invalid-period
\* error.
C12_Witness ==
    /\ Call.fn = "get_loss_breakdown_data"
    /\ Table # <<>>
    /\ Call.period = "yearly"
    /\ Call.raised = INVALID_PERIOD
    /\ Call.result = None

(***************************************************************************)
(* Properties of one analysis run (SpecCore), continued.                   *)
(***************************************************************************)
\* C13 Sensor alert: a record of the analysis table is flagged 'Check Sensor'
\* exactly when its irradiance index is strictly below 100 - threshold or strictly
\* above 100 + threshold, a record whose index equals either bound is 'OK', and
\* the summary's Sensor Alerts Count is the number of records flagged.
C13_SensorAlert ==
    analysis_df # None =>
        LET thr == Get(system_info).irr_alert_threshold
            flagged == {i \in 1..Len(Table) : Table[i].irr_alert = CHECK_SENSOR}
        IN  /\ \A i \in 1..Len(Table) :
                  /\ Table[i].irr_alert \in {CHECK_SENSOR, OK}
                  /\ Table[i].irr_alert = CHECK_SENSOR <=>
                         \/ Lt(Table[i].irr_index_pct, Sub(F(100), thr))
                         \/ Gt(Table[i].irr_index_pct, Add(F(100), thr))
                  /\ (\/ Table[i].irr_index_pct = Sub(F(100), thr)
                      \/ Table[i].irr_index_pct = Add(F(100), thr)) =>
                         Table[i].irr_alert = OK
            /\ Get(insights).Sensor_Alerts_Count = Cardinality(flagged)

\* A table with a record whose index is exactly 100 + threshold and 'OK', and a
\* record beyond a bound that is flagged and counted.
C13_Witness ==
    /\ analysis_df # None
    /\ \E i \in 1..Len(Table) :
          /\ Table[i].irr_index_pct = Add(F(100), Get(system_info).irr_alert_threshold)
          /\ Table[i].irr_alert = OK
    /\ \E i \in 1..Len(Table) : Table[i].irr_alert = CHECK_SENSOR
    /\ Get(insights).Sensor_Alerts_Count > 0

\* C14 No in-place mutation: the analysis table the handler passes to
\* generate_conclusion_text_phase2, and that passes on to detect_anomalies_with_ml,
\* has the same columns afterwards: it never holds an is_anomaly column.
C14_NoInPlaceMutation == anomaly_flags = None

(***************************************************************************)
(* Properties of the direct calls (SpecFn), continued.                     *)
(***************************************************************************)
\* C15 Short-term minimum: on a table of fewer than 6 records
\* calculate_short_term_forecast returns None without raising and without fitting
\* a model; on a table of 6 or more records it returns a result with a date, a
\* predicted value and a lower and an upper bound.
C15_ShortTermMinimum ==
    Call.fn = "calculate_short_term_forecast" =>
        /\ Len(Table) < 6 =>
               ~Call.raised /\ ~Call.fitted /\ Call.result = None
        /\ Len(Table) >= 6 =>
               /\ ~Call.raised
               /\ Call.result # None
               /\ DOMAIN Get(Call.result) = {"date", "pi", "pi_lower", "pi_upper"}

\* C16 Long-term minimum: when no calendar year of the analysis table has 12
\* distinct months calculate_long_term_forecast returns the empty table without
\* raising and without fitting a model; when some year has and the baseline is
\* not empty it returns a table with rows.
C16_LongTermMinimum ==
    Call.fn = "calculate_long_term_forecast" =>
        LET full == {y \in Years(Table) : DistinctMonths(y) = 12}
        IN  /\ full = {} =>
                   ~Call.raised /\ ~Call.fitted /\ Call.result = <<>>
            /\ (full # {} /\ Get(pvsyst_df) # <<>>) =>
                   ~Call.raised /\ Call.result # <<>>

(***************************************************************************)
(* Properties of one analysis run (SpecCore), continued.                   *)
(***************************************************************************)
\* C17 Anomaly minimum: after a run on fewer than 3 records every record is
\* flagged non-anomalous, and the narrative built from them exists, holds no
\* anomaly bullet and holds the 'no anomalies' line.
C17_AnomalyMinimum ==
    (last_call # None /\ Len(Table) < 3) =>
        /\ anomaly_flags = Some([i \in 1..Len(Table) |-> 1])
        /\ conclusion_text_list # None
        /\ LET lines == Get(conclusion_text_list)
           IN  /\ \A i \in 1..Len(lines) : lines[i].text \notin {"Month:", ANOMALY_REC}
               /\ \E i \in 1..Len(lines) :
                      lines[i].text = "No significant performance anomalies"

(***************************************************************************)
(* Properties of the direct calls (SpecFn), continued.                     *)
(***************************************************************************)
\* The sum of the defined values of column c over the records of year y.
SumOfYear(c, y) ==
    SumSeq([i \in 1..Len(SelectSeq(Table, LAMBDA r : r.Year = y)) |->
               SelectSeq(Table, LAMBDA r : r.Year = y)[i][c]])

\* C18 Yearly table densification: for a table with records,
\* create_yearly_yield_guarantee_data returns exactly one row for every calendar
\* year from the smallest to the largest year of the records, in ascending order;
\* a year without records has missing actual and expected yield, every row carries
\* the configured energy guarantee, and a year with records carries the sums of
\* its actual and of its expected yields divided by 1000.
C18_YearlyDensification ==
    (Call.fn = "create_yearly_yield_guarantee_data" /\ Table # <<>>) =>
        LET rows == Call.result
            lo   == Min(Years(Table))
            hi   == Max(Years(Table))
        IN  /\ Len(rows) = hi - lo + 1
            /\ \A i \in 1..Len(rows) :
                  /\ rows[i].Year = lo + i - 1
                  /\ rows[i].Energy_Guarantee_MWh = Get(system_info).energy_guarantee
                  /\ rows[i].Year \notin Years(Table) =>
                         /\ IsNaN(rows[i].Actual_Yearly_Yield_MWh)
                         /\ IsNaN(rows[i].Expected_Yearly_Yield_MWh)
                  /\ rows[i].Year \in Years(Table) =>
                         /\ rows[i].Actual_Yearly_Yield_MWh =
                                Div(SumOfYear("actual_yield_kwh", rows[i].Year), F(1000))
                         /\ rows[i].Expected_Yearly_Yield_MWh =
                                Div(SumOfYear("expected_yield_kwh", rows[i].Year), F(1000))

\* A table whose records leave out a year between two others: the result has a
\* row for that year with missing yields and the guarantee, and a row of a year
\* with records and a positive actual yield.
C18_Witness ==
    /\ Call.fn = "create_yearly_yield_guarantee_data"
    /\ \E i \in 1..Len(Call.result) :
          /\ 1 < i /\ i < Len(Call.result)
          /\ Call.result[i].Year \notin Years(Table)
          /\ IsNaN(Call.result[i].Actual_Yearly_Yield_MWh)
          /\ Call.result[i].Energy_Guarantee_MWh = Get(system_info).energy_guarantee
    /\ Gt(Call.result[1].Actual_Yearly_Yield_MWh, F(0))

(***************************************************************************)
(* Properties of the database under save_project_data calls (SpecDb).      *)
(***************************************************************************)
\* The rows of monthly_analysis_data of project id, in table order.
RowsOf(database, id) == SelectSeq(database.monthly, LAMBDA r : r.project_id = id)

\* The projects rows named name.
Named(database, name) == SelectSeq(database.projects, LAMBDA r : r.project_name = name)

\* monthly_analysis_data holds at most one row per (project_id, date) and projects
\* at most one row per project name.
DbKeysUnique ==
    /\ \A i, j \in 1..Len(db.monthly) :
          (db.monthly[i].project_id = db.monthly[j].project_id
           /\ db.monthly[i].date = db.monthly[j].date) => i = j
    /\ \A i, j \in 1..Len(db.projects) :
          db.projects[i].project_name = db.projects[j].project_name => i = j

\* After a successful save of project P with table T the rows of P are, record by
\* record, the rows of T.
SavedRowsMatch ==
    (Call.fn = "save_project_data" /\ Call.project_id # None) =>
        LET id   == Get(Call.project_id)
            rows == RowsOf(db, id)
            T    == Call.analysis_df
        IN  /\ Len(Named(db, Call.system_info.project_name)) = 1
            /\ Named(db, Call.system_info.project_name)[1].project_id = id
            /\ Len(rows) = Len(T)
            /\ \A i \in 1..Len(T) : rows[i] = MonthlyRow(id, T[i])
            /\ {rows[i].date : i \in 1..Len(rows)} = {T[i].Date : i \in 1..Len(T)}

\* A successful save of a project that has a row keeps that row's project_id.
KeepsProjectId ==
    (fn_call' # None /\ Get(fn_call').project_id # None) =>
        \A i \in 1..Len(db.projects) :
            db.projects[i].project_name = Get(fn_call').system_info.project_name =>
                Get(fn_call').project_id = Some(db.projects[i].project_id)

\* C19 Persistence mapping: after any sequence of save_project_data calls,
\* monthly_analysis_data holds at most one row per (project_id, date) and projects
\* at most one row per project name; after a successful save of project P with
\* table T the rows of P correspond one to one to the records of T (rows of an
\* earlier save whose dates are not in T are gone), and P keeps the project_id it
\* had before.
C19_PersistenceMapping ==
    [](DbKeysUnique /\ SavedRowsMatch) /\ [][KeepsProjectId]_vars

\* The first project was saved, with success, with a table of one record while a
\* second project holds two rows: the first project has exactly one row.
C19_Witness ==
    /\ Call.fn = "save_project_data"
    /\ Call.project_id = Some(1)
    /\ Len(db.projects) = 2
    /\ Len(Call.analysis_df) = 1
    /\ Len(RowsOf(db, 1)) = 1
    /\ Len(RowsOf(db, 2)) = 2

(***************************************************************************)
(* Properties of the direct calls (SpecFn), continued.                     *)
(***************************************************************************)
\* C20 Loss breakdown values: on a table with records, for period 'latest_month'
\* get_loss_breakdown_data returns ideal, temperature loss, other loss and actual
\* of a record with the greatest date, each divided by 1000; for period 'overall'
\* it returns the four corresponding totals of the summary unchanged.
C20_LossBreakdownValues ==
    (Call.fn = "get_loss_breakdown_data" /\ Table # <<>> /\ Call.raised = NO_ERROR) =>
        LET b == Get(Call.result)
        IN  /\ Call.period = "latest_month" =>
                   \E i \in 1..Len(Table) :
                       /\ \A j \in 1..Len(Table) : Table[j].Date <= Table[i].Date
                       /\ b.ideal = Div(Table[i].ideal_yield_kwh, F(1000))
                       /\ b.temp_loss = Div(Table[i].temp_loss_kwh, F(1000))
                       /\ b.other_loss = Div(Table[i].other_losses_kwh, F(1000))
                       /\ b.actual = Div(Table[i].actual_yield_kwh, F(1000))
            /\ Call.period = "overall" =>
                   /\ b.ideal = Get(insights).Total_Ideal_Yield_MWh
                   /\ b.temp_loss = Get(insights).Total_Temperature_Loss_MWh
                   /\ b.other_loss = Get(insights).Total_Other_Losses_MWh
                   /\ b.actual = Get(insights).Total_Actual_Yield_MWh

\* A 'latest_month' breakdown of a table whose last record yields something else
\* than its first: the breakdown holds the last record's actual yield in MWh.
C20_Witness ==
    /\ Call.fn = "get_loss_breakdown_data"
    /\ Call.period = "latest_month"
    /\ Len(Table) >= 2
    /\ Table[1].Date < Table[Len(Table)].Date
    /\ Table[1].actual_yield_kwh # Table[Len(Table)].actual_yield_kwh
    /\ Get(Call.result).actual = Div(Table[Len(Table)].actual_yield_kwh, F(1000))
    /\ Gt(Get(Call.result).ideal, F(0))

(***************************************************************************)
(* Properties of one analysis run (SpecCore), continued.                   *)
(***************************************************************************)
\* The sum of the defined values of column c of the analysis table, in MWh.
TotalMWh(c) == Div(SumSeq([i \in 1..Len(Table) |-> Table[i][c]]), F(1000))

\* C21 Summary variance: Overall Yield Variance (MWh) is Total Actual Yield minus
\* Total Expected Yield; Overall Yield Variance (%) is 100 times that variance
\* over Total Expected Yield, and 0 when Total Expected Yield is 0; each of the
\* five totals is the sum of the per-record field divided by 1000.
C21_SummaryVariance ==
    analysis_df # None =>
        LET ins == Get(insights)
        IN  /\ ins.Total_Actual_Yield_MWh = TotalMWh("actual_yield_kwh")
            /\ ins.Total_Expected_Yield_MWh = TotalMWh("expected_yield_kwh")
            /\ ins.Total_Ideal_Yield_MWh = TotalMWh("ideal_yield_kwh")
            /\ ins.Total_Temperature_Loss_MWh = TotalMWh("temp_loss_kwh")
            /\ ins.Total_Other_Losses_MWh = TotalMWh("other_losses_kwh")
            /\ ins.Overall_Yield_Variance_MWh =
                   Sub(ins.Total_Actual_Yield_MWh, ins.Total_Expected_Yield_MWh)
            /\ ins.Overall_Yield_Variance_pct =
                   (IF ins.Total_Expected_Yield_MWh = F(0) THEN F(0)
                    ELSE Div(Mul(F(100), ins.Overall_Yield_Variance_MWh),
                             ins.Total_Expected_Yield_MWh))

\* A summary with a positive total expected yield, a negative variance and the
\* matching negative percentage.
C21_Witness ==
    /\ analysis_df # None
    /\ Gt(Get(insights).Total_Expected_Yield_MWh, F(0))
    /\ Lt(Get(insights).Overall_Yield_Variance_MWh, F(0))
    /\ Lt(Get(insights).Overall_Yield_Variance_pct, F(0))

\* The years of the analysis table that have 12 distinct months.
FullYears == {y \in Years(Table) : DistinctMonths(y) = 12}

\* C22 Historical/Forecast tag: every row of the long-term forecast table whose
\* year is at most the largest year with 12 distinct months is tagged
\* 'Historical', and every row of a later year is tagged 'Forecast'.
C22_HistoricalForecastTag ==
    \A i \in 1..Len(Yearly) :
        /\ FullYears # {}
        /\ Yearly[i].Year <= Max(FullYears) => Yearly[i].Type = "Historical"
        /\ Yearly[i].Year > Max(FullYears) => Yearly[i].Type = "Forecast"

\* A forecast table with the row of the last full year tagged 'Historical' and the
\* row of the year after it tagged 'Forecast'.
C22_Witness ==
    \E i, j \in 1..Len(Yearly) :
        /\ Yearly[i].Year = Max(FullYears)
        /\ Yearly[i].Type = "Historical"
        /\ Yearly[j].Year = Max(FullYears) + 1
        /\ Yearly[j].Type = "Forecast"

\* The narrative holds a line with this text.
Narrates(text) ==
    /\ conclusion_text_list # None
    /\ \E i \in 1..Len(Get(conclusion_text_list)) :
           Get(conclusion_text_list)[i].text = text

\* C23 Narrative forecast section: after a run on 6 or more records the narrative
\* holds the 'Next Month Forecast' heading and its paragraph; after a run on fewer
\* records the narrative exists without that section and holds the anomaly section
\* and the recommendations section.
C23_NarrativeForecastSection ==
    last_call # None =>
        /\ conclusion_text_list # None
        /\ Narrates("Next Month Forecast") <=> Len(Table) >= 6
        /\ Narrates("For") <=> Len(Table) >= 6
        /\ Narrates("Machine Learning Anomaly Report")
        /\ Narrates("Actionable Recommendations")

(***************************************************************************)
(* Properties of the database under save_project_data calls (SpecDb),      *)
(* continued.                                                              *)
(***************************************************************************)
\* Two records of table T have the same date.
SameDateTwice(T) == \E i, j \in 1..Len(T) : i # j /\ T[i].Date = T[j].Date

\* A call that returns None leaves the database as it was.
FailedSaveChangesNothing ==
    (fn_call' # None /\ Get(fn_call').project_id = None) => db' = db

\* C24 Failed save is atomic: a save_project_data call with a table that holds
\* two records of the same date returns None, and every call that returns None
\* leaves the database exactly as before: the configuration row and the monthly
\* rows of the project are unchanged and no project row is added.
C24_FailedSaveAtomic ==
    /\ []((Call.fn = "save_project_data" /\ Call.system_info.project_name # ""
           /\ SameDateTwice(Call.analysis_df)) => Call.project_id = None)
    /\ [][FailedSaveChangesNothing]_vars

\* A project with a stored row and another configuration was saved again with a
\* table holding the same date twice, with no outside fault: the call returned
\* None and the project's one row and its configuration are still there.
C24_Witness ==
    /\ Call.fn = "save_project_data"
    /\ Call.fault = "none"
    /\ SameDateTwice(Call.analysis_df)
    /\ Call.project_id = None
    /\ Len(Named(db, Call.system_info.project_name)) = 1
    /\ Named(db, Call.system_info.project_name)[1].config
           # ProjectConfig(Call.system_info)
    /\ Len(RowsOf(db, Named(db, Call.system_info.project_name)[1].project_id)) = 1

(***************************************************************************)
(* Properties of the direct calls (SpecFn), continued.                     *)
(***************************************************************************)
\* Where the waterfall of breakdown b ends: ideal + temp_loss - other_loss.
WaterfallEnd(b) == Sub(Add(b.ideal, b.temp_loss), b.other_loss)

\* What record r takes from the closure, in kWh: the amount the floor of 0.01
\* added to its expected yield, and its whole actual yield when the record has no
\* baseline entry (its ideal, temperature loss and other losses are missing).
Unclosed(r) ==
    IF IsNaN(r.expected_yield_kwh) THEN r.actual_yield_kwh
    ELSE Sub(r.expected_yield_kwh, Add(r.ideal_yield_kwh, r.temp_loss_kwh))

\* C25 as stated: every breakdown returned on a table with records closes:
\* ideal + temp_loss - other_loss = actual.
C25_WaterfallClosure ==
    (Call.fn = "get_loss_breakdown_data" /\ Table # <<>> /\ Call.raised = NO_ERROR) =>
        WaterfallEnd(Get(Call.result)) = Get(Call.result).actual

\* C25 Waterfall closure: for every breakdown returned on a table with records,
\* the waterfall ends at actual minus what the floor of 0.01 added to the expected
\* yield of the records it covers (the latest record, or all records for
\* 'overall'); so it ends exactly at actual when every covered record has a
\* baseline entry and ideal + temp_loss of at least 0.01.  A latest record
\* without baseline entry has a missing waterfall end; records without baseline
\* entry take their whole actual yield from the 'overall' waterfall end.
C25_WaterfallClosureUpToFloor ==
    (Call.fn = "get_loss_breakdown_data" /\ Table # <<>> /\ Call.raised = NO_ERROR) =>
        LET b    == Get(Call.result)
            last == Table[Len(Table)]
            gaps == [i \in 1..Len(Table) |-> Unclosed(Table[i])]
        IN  /\ Call.period = "latest_month" =>
                   IF IsNaN(last.expected_yield_kwh) THEN IsNaN(WaterfallEnd(b))
                   ELSE WaterfallEnd(b) = Sub(b.actual, Div(Unclosed(last), F(1000)))
            /\ Call.period = "overall" =>
                   WaterfallEnd(b) = Sub(b.actual, Div(SumSeq(gaps), F(1000)))
            /\ (\A i \in 1..Len(Table) :
                   /\ ~IsNaN(Table[i].expected_yield_kwh)
                   /\ Ge(Add(Table[i].ideal_yield_kwh, Table[i].temp_loss_kwh), Q(1, 100)))
                   => WaterfallEnd(b) = b.actual

\* An 'overall' breakdown of a table whose records all have a baseline entry, one
\* of them with an expected yield floored at 0.01: the waterfall ends below actual.
C25_Witness ==
    /\ Call.fn = "get_loss_breakdown_data"
    /\ Call.period = "overall"
    /\ Call.raised = NO_ERROR
    /\ \A i \in 1..Len(Table) : ~IsNaN(Table[i].expected_yield_kwh)
    /\ \E i \in 1..Len(Table) :
          /\ Table[i].expected_yield_kwh = Q(1, 100)
          /\ Lt(Add(Table[i].ideal_yield_kwh, Table[i].temp_loss_kwh), Q(1, 100))
    /\ Gt(Get(Call.result).actual, F(0))
    /\ Lt(WaterfallEnd(Get(Call.result)), Get(Call.result).actual)

(***************************************************************************)
(* Properties of one analysis run (SpecCore), continued.                   *)
(***************************************************************************)
\* C26 Long-term table rows: a non-empty long-term forecast table has exactly one
\* row per year with 12 distinct months, in ascending order, tagged 'Historical'
\* and carrying the year's actual yield, followed by exactly forecast_period rows
\* tagged 'Forecast' for the consecutive years after the last such year; a year
\* that is not fully observed and earlier than the last full year has no row.
C26_LongTermTableRows ==
    Yearly # <<>> =>
        LET full == SortedSeq(FullYears)
            n    == Len(full)
            fp   == Get(system_info).forecast_period
        IN  /\ n >= 1
            /\ Len(Yearly) = n + fp
            /\ \A i \in 1..n :
                  /\ Yearly[i].Year = full[i]
                  /\ Yearly[i].Type = "Historical"
                  /\ Yearly[i].Forecasted_Yield_MWh = ActualMWh(full[i])
            /\ \A k \in 1..fp :
                  /\ Yearly[n + k].Year = full[n] + k
                  /\ Yearly[n + k].Type = "Forecast"
            /\ \A y \in Years(Table) \ FullYears :
                  y < full[n] => \A i \in 1..Len(Yearly) : Yearly[i].Year # y

\* A forecast table of a run whose records hold a year that is not fully observed
\* before the last full year: that year has no row, the full year has a
\* 'Historical' row and the forecast rows follow.
C26_Witness ==
    /\ Yearly # <<>>
    /\ \E y \in Years(Table) \ FullYears :
          /\ y < Max(FullYears)
          /\ \A i \in 1..Len(Yearly) : Yearly[i].Year # y
    /\ Yearly[Len(Yearly)].Type = "Forecast"
    /\ Yearly[1].Type = "Historical"
    /\ Gt(Yearly[1].Forecasted_Yield_MWh, F(0))

(***************************************************************************)
(* Properties of the session (Spec).                                       *)
(***************************************************************************)
\* A step of the main application: it changed the uploaded table, the
\* configuration of a confirmed baseline, or ran the analysis.
MainAppStep ==
    \/ actual_df' # actual_df /\ actual_df' # None
    \/ system_info' # system_info /\ system_info # None /\ system_info' # None
    \/ last_call' # last_call /\ last_call' # None

\* baseline_confirmed becomes true only by confirming validation results, whose
\* baseline becomes the session's, and the main application acts, and the
\* analysis runs, only in a logged-in session with a confirmed baseline.
GatedStep ==
    /\ (baseline_confirmed' /\ ~baseline_confirmed) =>
           /\ logged_in
           /\ validation_results # None
           /\ pvsyst_df' = Some(Get(validation_results).pvsyst_df)
           /\ system_info' # None
    /\ MainAppStep =>
           /\ logged_in /\ baseline_confirmed
           /\ system_info # None /\ pvsyst_df # None

\* C27 Session gating: the main application is rendered, and acts, only when
\* logged_in and baseline_confirmed are both true; baseline_confirmed becomes true
\* only through 'Confirm & Proceed' on validation results; whenever it is true
\* the session holds system_info and pvsyst_df; and results of an analysis exist
\* only in a logged-in session with a confirmed baseline.
C27_SessionGating ==
    /\ [](MainAppShown <=> (logged_in /\ baseline_confirmed))
    /\ [](baseline_confirmed => (logged_in /\ system_info # None /\ pvsyst_df # None))
    /\ []((analysis_df # None \/ last_call # None) => (logged_in /\ baseline_confirmed))
    /\ [][GatedStep]_vars

\* An analysis has run in a logged-in session with a confirmed baseline, on the
\* baseline that was confirmed.
C27_Witness ==
    /\ logged_in
    /\ baseline_confirmed
    /\ last_call # None
    /\ analysis_df # None
    /\ pvsyst_df # None
    /\ Some(Get(last_call).pvsyst_df) = pvsyst_df

\* No key of the session is set.
SessionEmpty ==
    /\ ~logged_in /\ ~baseline_confirmed
    /\ validation_results = None /\ system_info = None /\ pvsyst_df = None
    /\ actual_df = None /\ analysis_df = None /\ insights = None
    /\ conclusion_text_list = None /\ forecast_df = None /\ forecast_monthly = None
    /\ full_years_df = None /\ short_term_forecast_result = None
    /\ guarantee_df = None /\ loss_breakdown_figs = None

\* A logout empties the session; the main application comes up only by a
\* baseline confirmation in a logged-in session; logged_in becomes true only by
\* a login.
LogoutStep ==
    /\ (logged_in /\ ~logged_in') => SessionEmpty'
    /\ (~MainAppShown /\ MainAppShown') =>
           logged_in /\ ~baseline_confirmed /\ validation_results # None
    /\ (~logged_in /\ logged_in') => ~baseline_confirmed'

\* C28 Logout resets the session: after 'Logout & Start Over' no session key is
\* left (analysis table, insights, figures, system_info, pvsyst_df,
\* baseline_confirmed, logged_in), the login form is what is rendered, and the
\* main application is rendered again only after a login followed by a new
\* baseline confirmation.
C28_LogoutResets ==
    /\ [](~logged_in => (SessionEmpty /\ ~MainAppShown))
    /\ [][LogoutStep]_vars

\* A session that ran and saved an analysis has been logged out: the database
\* holds its project, the session holds nothing and shows the login form.
C28_Witness ==
    /\ db.projects # <<>>
    /\ phase2_cache # {}
    /\ SessionEmpty
    /\ ~MainAppShown

(***************************************************************************)
(* Properties of the database under save_project_data calls (SpecDb),      *)
(* continued.                                                              *)
(***************************************************************************)
\* A save_project_data call for project P leaves every other project as it was:
\* its projects row, its monthly rows, and what load_project_data returns for it.
OtherProjectsUnchanged ==
    fn_call' # None =>
        \A i \in 1..Len(db.projects) :
            LET other == db.projects[i]
            IN  other.project_name # Get(fn_call').system_info.project_name =>
                    /\ i <= Len(db'.projects)
                    /\ db'.projects[i] = other
                    /\ RowsOf(db', other.project_id) = RowsOf(db, other.project_id)
                    /\ load_project_data(db', other.project_name)
                           = load_project_data(db, other.project_name)

\* C29 Save frame: a save_project_data call for project P, whether it succeeds or
\* fails, leaves the configuration row and every monthly row of every other
\* project unchanged, so load_project_data of another project returns the same
\* configuration and records before and after the call.
C29_SaveFrame == [][OtherProjectsUnchanged]_vars

\* The second project was saved, with success, with a table of two records while
\* the first project holds a row: load_project_data returns both projects.
C29_Witness ==
    /\ Call.fn = "save_project_data"
    /\ Call.project_id = Some(2)
    /\ Len(Call.analysis_df) = 2
    /\ Len(RowsOf(db, 1)) = 1
    /\ \A i \in 1..2 :
          /\ load_project_data(db, db.projects[i].project_name) # None
          /\ Get(load_project_data(db, db.projects[i].project_name)).analysis_df # <<>>

(***************************************************************************)
(* Properties of the direct calls (SpecFn), continued.                     *)
(***************************************************************************)
\* C30 Degraded guarantee bound: for a degradation rate between 0 and 100 percent
\* the Degraded Guarantee of every row of the table calculate_long_term_forecast
\* returns is at most the configured energy guarantee, and it does not increase
\* from a row's year to a later row's year, also when the data hold years before
\* the commissioning year.
C30_DegradedGuaranteeBound ==
    (Call.fn = "calculate_long_term_forecast"
     /\ Ge(Get(system_info).degradation_rate, F(0))
     /\ Le(Get(system_info).degradation_rate, F(100))) =>
        LET rows == Call.result
        IN  /\ \A i \in 1..Len(rows) :
                  Le(rows[i].Degraded_Guarantee_MWh, Get(system_info).energy_guarantee)
            /\ \A i, j \in 1..Len(rows) :
                  rows[i].Year < rows[j].Year =>
                      Ge(rows[i].Degraded_Guarantee_MWh, rows[j].Degraded_Guarantee_MWh)

====
